---- MODULE Spec2Model ----
(***************************************************************************)
(* A model of the ingress-anubis controller: the IngressReconciler of      *)
(* internal/controller (Reconcile, mirrorStatus, deleteResources,          *)
(* getTargetFromService, reconcileDeployment, reconcileService,            *)
(* reconcileChildIngress) and the annotation parser of internal/config     *)
(* (GetIngressConfigFromIngress), run against an object store that keeps   *)
(* ingresses, services and deployments by namespace and name.              *)
(*                                                                         *)
(* Conventions.  A Go string is a sequence of one-character strings, so    *)
(* that concatenation, strings.Split, strconv.Atoi and strconv.Itoa are    *)
(* computed and not assumed.  A Go pointer (or optional field) is a        *)
(* sequence of length 0 (nil) or 1 (the value).  A Go map is a function    *)
(* whose DOMAIN is the set of keys present; map keys that the code only    *)
(* ever names by constant (label, annotation and environment keys) are     *)
(* TLA+ strings.                                                           *)
(***************************************************************************)
EXTENDS Integers, Sequences, FiniteSets, TLC

VARIABLES
    ingresses,      \* the store's Ingress objects: key -> object
    services,       \* the store's Service objects: key -> object
    deployments,    \* the store's Deployment objects: key -> object
    cfg,            \* the process-wide configuration (config.Config)
    last,           \* the record of the Reconcile pass that has just run
    userOps,        \* how many changes the users and other controllers made
    exIn,           \* the ingress handed to GetIngressConfigFromIngress
    exOut,          \* what GetIngressConfigFromIngress returned for exIn
    inFlight        \* the pass that has read its ingress and not yet gone on

vars == <<ingresses, services, deployments, cfg, last, userOps, exIn, exOut, inFlight>>

\* ------------------------------------------------------------ strings

Nil == <<>>

Ptr(v) == <<v>>

IsNil(p) == Len(p) = 0

Deref(p) == p[1]

EmptyMap == <<>>

\* m[k] = v added to (or replaced in) the map m.
MapSet(m, k, v) == (k :> v) @@ m

\* Go's m[k] on a map[string]string: the zero value "" when k is absent.
MapGet(m, k) == IF k \in DOMAIN m THEN m[k] ELSE <<>>

Digits == <<"0", "1", "2", "3", "4", "5", "6", "7", "8", "9">>

IsDigit(c) == \E i \in 1..10 : Digits[i] = c

DigitVal(c) == (CHOOSE i \in 1..10 : Digits[i] = c) - 1

\* The value of a non-empty sequence of digits, most significant first.
RECURSIVE DigitsVal(_)
DigitsVal(s) ==
    IF Len(s) = 0 THEN 0
    ELSE 10 * DigitsVal(SubSeq(s, 1, Len(s) - 1)) + DigitVal(s[Len(s)])

\* strconv.Atoi: an optional sign, then one or more decimal digits; anything
\* else (the empty string, a letter, a space) is an error.  Atoi also rejects
\* values outside the int range; the digit strings of this model are short, so
\* that case does not arise.
Atoi(s) ==
    LET signed == Len(s) > 0 /\ s[1] \in {"+", "-"}
        body == IF signed THEN SubSeq(s, 2, Len(s)) ELSE s
        wellFormed == Len(body) > 0 /\ \A i \in 1..Len(body) : IsDigit(body[i])
        mag == IF wellFormed THEN DigitsVal(body) ELSE 0
        neg == signed /\ s[1] = "-"
    IN  IF ~wellFormed
        THEN [ok |-> FALSE, val |-> 0]
        ELSE [ok |-> TRUE, val |-> IF neg THEN 0 - mag ELSE mag]

RECURSIVE ItoaNat(_)
ItoaNat(n) ==
    IF n < 10 THEN <<Digits[n + 1]>>
    ELSE ItoaNat(n \div 10) \o <<Digits[(n % 10) + 1]>>

\* strconv.Itoa
Itoa(n) == IF n < 0 THEN <<"-">> \o ItoaNat(0 - n) ELSE ItoaNat(n)

StrTrue == <<"t", "r", "u", "e">>

StrFalse == <<"f", "a", "l", "s", "e">>

\* strconv.ParseBool accepts exactly these spellings.
ParseBoolTrue ==
    {<<"1">>, <<"t">>, <<"T">>, <<"T", "R", "U", "E">>, StrTrue, <<"T", "r", "u", "e">>}

ParseBoolFalse ==
    {<<"0">>, <<"f">>, <<"F">>, <<"F", "A", "L", "S", "E">>, StrFalse,
     <<"F", "a", "l", "s", "e">>}

ParseBool(s) ==
    IF s \in ParseBoolTrue THEN [ok |-> TRUE, val |-> TRUE]
    ELSE IF s \in ParseBoolFalse THEN [ok |-> TRUE, val |-> FALSE]
    ELSE [ok |-> FALSE, val |-> FALSE]

\* strconv.FormatBool
FormatBool(b) == IF b THEN StrTrue ELSE StrFalse

\* Whether sep occurs in s at position i.
MatchAt(s, sep, i) ==
    /\ i + Len(sep) - 1 <= Len(s)
    /\ \A j \in 1..Len(sep) : s[i + j - 1] = sep[j]

\* strings.Split(s, sep) for a non-empty sep: s cut at every occurrence of
\* sep, found left to right without overlap.
RECURSIVE SplitFrom(_, _, _, _)
SplitFrom(s, sep, start, i) ==
    IF i > Len(s) THEN <<SubSeq(s, start, Len(s))>>
    ELSE IF MatchAt(s, sep, i)
         THEN <<SubSeq(s, start, i - 1)>> \o SplitFrom(s, sep, i + Len(sep), i + Len(sep))
         ELSE SplitFrom(s, sep, start, i + 1)

Split(s, sep) == SplitFrom(s, sep, 1, 1)

\* ------------------------------------------- internal/config: directives

AnnotationKeyDifficulty == "ingress-anubis.jaredallard.github.com/difficulty"

AnnotationKeyServeRobotsTxt == "ingress-anubis.jaredallard.github.com/serve-robots-txt"

AnnotationKeyIngressClass == "ingress-anubis.jaredallard.github.com/ingress-class"

AnnotationKeyOGPassthrough == "ingress-anubis.jaredallard.github.com/og-passthrough"

\* The recognized keys, in the order the parser visits them.
AnnotationKeys ==
    <<AnnotationKeyDifficulty, AnnotationKeyServeRobotsTxt, AnnotationKeyIngressClass>>

DefaultDifficulty == 4

\* The zero IngressConfig: every field a nil pointer.
ZeroIngressConfig == [Difficulty |-> Nil, ServeRobotsTxt |-> Nil, IngressClass |-> Nil]

\* applyDefaults filling in the difficulty only.
applyDefaultsDifficultyOnly(ic) ==
    [ic EXCEPT !.Difficulty = IF IsNil(@) THEN Ptr(DefaultDifficulty) ELSE @]

applyDefaults(ic) ==
    [ic EXCEPT
        !.Difficulty = IF IsNil(@) THEN Ptr(DefaultDifficulty) ELSE @,
        !.ServeRobotsTxt = IF IsNil(@) THEN Ptr(TRUE) ELSE @]

\* ParseAnnotation leaving the field unset when its value does not parse.
ParseAnnotationLenient(ic, k, v) ==
    IF k = AnnotationKeyServeRobotsTxt
    THEN [err |-> Nil,
          cfg |-> IF ParseBool(v).ok THEN [ic EXCEPT !.ServeRobotsTxt = Ptr(ParseBool(v).val)]
                  ELSE ic]
    ELSE IF k = AnnotationKeyDifficulty
    THEN [err |-> Nil,
          cfg |-> IF Atoi(v).ok THEN [ic EXCEPT !.Difficulty = Ptr(Atoi(v).val)] ELSE ic]
    ELSE [err |-> Nil, cfg |-> [ic EXCEPT !.IngressClass = Ptr(v)]]

\* ParseAnnotation with no case for the ingress-class directive.
ParseAnnotationClassIgnored(ic, k, v) ==
    IF k = AnnotationKeyServeRobotsTxt
    THEN IF ParseBool(v).ok
         THEN [err |-> Nil, cfg |-> [ic EXCEPT !.ServeRobotsTxt = Ptr(ParseBool(v).val)]]
         ELSE [err |-> Ptr([key |-> k, value |-> v, as |-> "bool"]), cfg |-> ic]
    ELSE IF k = AnnotationKeyDifficulty
    THEN IF Atoi(v).ok
         THEN [err |-> Nil, cfg |-> [ic EXCEPT !.Difficulty = Ptr(Atoi(v).val)]]
         ELSE [err |-> Ptr([key |-> k, value |-> v, as |-> "int"]), cfg |-> ic]
    ELSE [err |-> Nil, cfg |-> ic]

\* One iteration of the parser's loop for key k: the configuration ic with k's
\* field set, or the error of the first value that does not parse.
ParseAnnotation(ic, k, v) ==
    IF k = AnnotationKeyServeRobotsTxt
    THEN LET b == ParseBool(v)
         IN  IF b.ok
             THEN [err |-> Nil, cfg |-> [ic EXCEPT !.ServeRobotsTxt = Ptr(b.val)]]
             ELSE [err |-> Ptr([key |-> k, value |-> v, as |-> "bool"]), cfg |-> ic]
    ELSE IF k = AnnotationKeyDifficulty
    THEN LET d == Atoi(v)
         IN  IF d.ok
             THEN [err |-> Nil, cfg |-> [ic EXCEPT !.Difficulty = Ptr(d.val)]]
             ELSE [err |-> Ptr([key |-> k, value |-> v, as |-> "int"]), cfg |-> ic]
    ELSE [err |-> Nil, cfg |-> [ic EXCEPT !.IngressClass = Ptr(v)]]

\* The loop over AnnotationKeys from position i on: a key that is absent is
\* skipped, the first parse error ends the loop.
RECURSIVE ParseAnnotationsFrom(_, _, _)
ParseAnnotationsFrom(annotations, ic, i) ==
    IF i > Len(AnnotationKeys) THEN [err |-> Nil, cfg |-> ic]
    ELSE IF AnnotationKeys[i] \notin DOMAIN annotations
         THEN ParseAnnotationsFrom(annotations, ic, i + 1)
         ELSE LET r == ParseAnnotation(ic, AnnotationKeys[i], annotations[AnnotationKeys[i]])
              IN  IF ~IsNil(r.err) THEN r
                  ELSE ParseAnnotationsFrom(annotations, r.cfg, i + 1)

\* The end of GetIngressConfigFromIngress: (nil, err) when the loop met a
\* value that does not parse, (&cfg, nil) with the defaults applied otherwise.
ParsedConfig(r) ==
    IF ~IsNil(r.err) THEN [cfg |-> Nil, err |-> r.err]
    ELSE [cfg |-> Ptr(applyDefaults(r.cfg)), err |-> Nil]

\* GetIngressConfigFromIngress(ing), ing a pointer.  A nil annotation map and
\* an empty one are the same empty function here.
GetIngressConfigFromIngress(ing) ==
    ParsedConfig(IF IsNil(ing) THEN [err |-> Nil, cfg |-> ZeroIngressConfig]
                 ELSE ParseAnnotationsFrom(Deref(ing).annotations, ZeroIngressConfig, 1))

\* The fields reconcileDeployment reads that GetIngressConfigFromIngress of
\* src/ does not fill: OGPassthrough (a boolean directive, default true) and
\* MetricsPort (not a directive).
DefaultMetricsPort == 9090

ExtendedConfig(r, annotations, og) ==
    IF ~IsNil(r.err) THEN r
    ELSE IF ~og.ok
    THEN [cfg |-> Nil,
          err |-> Ptr([key |-> AnnotationKeyOGPassthrough,
                       value |-> annotations[AnnotationKeyOGPassthrough], as |-> "bool"])]
    ELSE [cfg |-> Ptr([Difficulty |-> Deref(r.cfg).Difficulty,
                       ServeRobotsTxt |-> Deref(r.cfg).ServeRobotsTxt,
                       IngressClass |-> Deref(r.cfg).IngressClass,
                       OGPassthrough |-> Ptr(og.val),
                       MetricsPort |-> Ptr(DefaultMetricsPort)]),
          err |-> Nil]

OGPassthroughOf(annotations) ==
    IF AnnotationKeyOGPassthrough \in DOMAIN annotations
    THEN ParseBool(annotations[AnnotationKeyOGPassthrough])
    ELSE [ok |-> TRUE, val |-> TRUE]

\* The configuration of an ingress as the controller's Reconcile receives it.
IngressConfigOf(ing) ==
    ExtendedConfig(GetIngressConfigFromIngress(Ptr(ing)), ing.annotations,
                   OGPassthroughOf(ing.annotations))

\* ------------------------------------------------------ the object store

ManagedLabel == "ingress-anubis.jaredallard.github.com/managed"

OwningLabel == "ingress-anubis.jaredallard.github.com/owner"

FinalizerKey == "ingress-anubis.jaredallard.github.com/finalizer"

Key(ns, name) == [ns |-> ns, name |-> name]

\* x := v, then F(x): the value v is worked out once, before F is.
Then(v, F(_)) == CHOOSE y \in {F(x) : x \in {v}} : TRUE

\* One call of the client, as the pass log keeps it.
Op(verb, kind, key, res) == [verb |-> verb, kind |-> kind, key |-> key, res |-> res]

\* The state a pass works on: the store's objects by kind, the calls made so
\* far, the call (by position) that the store fails, none when 0, and the
\* offset at which a range over a Go map starts.
Ctx(failAt, mapOffset) ==
    [objs |-> [Ingress |-> ingresses, Service |-> services, Deployment |-> deployments],
     ops |-> <<>>, failAt |-> failAt, mapOffset |-> mapOffset]

Fails(c) == c.failAt = Len(c.ops) + 1

Logged(c, verb, kind, key, res) == [c EXCEPT !.ops = Append(@, Op(verb, kind, key, res))]

\* f without the key k.
Without(f, k) == [x \in DOMAIN f \ {k} |-> f[x]]

\* client.Get: "ok" with the stored object, "notfound", or "fail".
ClientGet(c, kind, key) ==
    LET res == IF Fails(c) THEN "fail"
               ELSE IF key \in DOMAIN c.objs[kind] THEN "ok" ELSE "notfound"
    IN  [c |-> Logged(c, "Get", kind, key, res), res |-> res,
         obj |-> IF res = "ok" THEN Ptr(c.objs[kind][key]) ELSE Nil]

\* What the store sets on an object it creates.
ServerCreated(kind, obj) ==
    IF kind = "Deployment" THEN [obj EXCEPT !.creationTimestamp = TRUE] ELSE obj

\* client.Create
ClientCreate(c, kind, key, obj) ==
    IF Fails(c) THEN [c |-> Logged(c, "Create", kind, key, "fail"), res |-> "fail"]
    ELSE [c |-> [Logged(c, "Create", kind, key, "ok")
                    EXCEPT !.objs[kind] = MapSet(@, key, ServerCreated(kind, obj))],
          res |-> "ok"]

\* client.Update
ClientUpdate(c, kind, key, obj) ==
    IF Fails(c) THEN [c |-> Logged(c, "Update", kind, key, "fail"), res |-> "fail"]
    ELSE [c |-> [Logged(c, "Update", kind, key, "ok") EXCEPT !.objs[kind] = MapSet(@, key, obj)],
          res |-> "ok"]

\* An object with finalizers is only marked for deletion; any other goes.
ServerDelete(objs, kind, key) ==
    IF kind = "Ingress" /\ Len(objs[key].finalizers) > 0
    THEN [objs EXCEPT ![key].deletionTimestamp = TRUE]
    ELSE Without(objs, key)

\* client.Delete
ClientDelete(c, kind, key) ==
    LET res == IF Fails(c) THEN "fail"
               ELSE IF key \in DOMAIN c.objs[kind] THEN "ok" ELSE "notfound"
    IN  [c |-> IF res = "ok"
               THEN [Logged(c, "Delete", kind, key, res)
                        EXCEPT !.objs[kind] = ServerDelete(@, kind, key)]
               ELSE Logged(c, "Delete", kind, key, res),
         res |-> res]

\* The members of the sequence s that are not in the sequence t, in s's order.
SeqMinus(s, t) == SelectSeq(s, LAMBDA x : \A i \in 1..Len(t) : t[i] # x)

\* A strategic merge patch of metadata.finalizers (a list merged by value),
\* computed from base to modified and applied to the stored list: what the
\* patch deletes goes, what it adds is appended.
PatchedFinalizers(stored, base, modified) ==
    SeqMinus(stored, SeqMinus(base, modified)) \o SeqMinus(SeqMinus(modified, base), stored)

\* The store drops an object marked for deletion when its last finalizer goes.
ServerStored(objs, key, obj) ==
    IF obj.deletionTimestamp /\ Len(obj.finalizers) = 0
    THEN Without(objs, key)
    ELSE MapSet(objs, key, obj)

\* client.Patch(ctx, modified, StrategicMergeFrom(base)) of an ingress whose
\* finalizers the caller changed.
ClientPatch(c, key, base, modified) ==
    LET res == IF Fails(c) THEN "fail"
               ELSE IF key \in DOMAIN c.objs.Ingress THEN "ok" ELSE "notfound"
        stored == c.objs.Ingress[key]
        patched == [stored EXCEPT
                       !.finalizers = PatchedFinalizers(@, base.finalizers, modified.finalizers)]
    IN  [c |-> IF res = "ok"
               THEN [Logged(c, "Patch", "Ingress", key, res)
                        EXCEPT !.objs.Ingress = ServerStored(@, key, patched)]
               ELSE Logged(c, "Patch", "Ingress", key, res),
         res |-> res]

\* client.Status().Patch(ctx, modified, StrategicMergeFrom(base)): the status
\* subresource takes the status of the patch and nothing else.
ClientStatusPatch(c, key, base, modified) ==
    LET res == IF Fails(c) THEN "fail"
               ELSE IF key \in DOMAIN c.objs.Ingress THEN "ok" ELSE "notfound"
    IN  [c |-> IF res = "ok"
               THEN [Logged(c, "StatusPatch", "Ingress", key, res)
                        EXCEPT !.objs.Ingress[key].status =
                                   IF modified.status = base.status THEN @ ELSE modified.status]
               ELSE Logged(c, "StatusPatch", "Ingress", key, res),
         res |-> res]

\* The result of a write: err is TRUE when the store refused it.
Wrote(w) == [c |-> w.c, err |-> w.res # "ok"]

\* The update half of CreateOrUpdate: nothing is sent when the mutation left
\* the stored object as it was.
UpdateIfChanged(c, kind, key, existing, obj) ==
    IF obj = existing THEN [c |-> c, err |-> FALSE]
    ELSE Wrote(ClientUpdate(c, kind, key, obj))

\* The object CreateOrUpdate hands to the mutate function: the caller's blank
\* object, filled by the Get when the store has one.
Fetched(g, blank) == IF g.res = "ok" THEN Deref(g.obj) ELSE blank

\* controllerutil.CreateOrUpdate after its Get, obj being the fetched object
\* as the mutate function left it: Create it when the store had none, Update
\* it unless the mutation changed nothing.  err is TRUE when a call to the
\* store failed.
CreateOrUpdate(g, kind, key, blank, obj) ==
    IF g.res = "fail" THEN [c |-> g.c, err |-> TRUE]
    ELSE IF g.res = "notfound" THEN Wrote(ClientCreate(g.c, kind, key, obj))
    ELSE UpdateIfChanged(g.c, kind, key, Fetched(g, blank), obj)

\* ------------------------------------------- internal/controller: helpers

StrIaPrefix == <<"i", "a", "-">>

StrDashDash == <<"-", "-">>

StrHttp == <<"h", "t", "t", "p">>

StrAnubis == <<"a", "n", "u", "b", "i", "s">>

StrTargetScheme == <<"h", "t", "t", "p", ":", "/", "/">>

StrTargetDomain ==
    <<".", "s", "v", "c", ".", "c", "l", "u", "s", "t", "e", "r", ".",
      "l", "o", "c", "a", "l", ":">>

\* The outcome of a pass: no error, an ordinary (retried) error, a
\* reconcile.TerminalError, or a panic of the handler; at names the statement
\* that produced it.
NoErr == [class |-> "nil", at |-> "none"]

Err(at) == [class |-> "error", at |-> at]

TerminalError(at) == [class |-> "terminal", at |-> at]

Panic(at) == [class |-> "panic", at |-> at]

Outcome(c, requeue, err) == [c |-> c, requeue |-> requeue, err |-> err]

\* The name and namespace of the three generated resources of a request.
GeneratedKey(req) == Key(cfg.Namespace, StrIaPrefix \o req.name)

\* The labels the three reconcile functions build for a request.
GeneratedLabels(req) ==
    [x \in {"app.kubernetes.io/instance", "app.kubernetes.io/name", ManagedLabel, OwningLabel}
        |-> IF x = ManagedLabel THEN StrTrue
            ELSE IF x = OwningLabel THEN req.ns \o StrDashDash \o req.name
            ELSE StrAnubis]

Min(a, b) == IF a < b THEN a ELSE b

\* slices.Contains
Contains(s, x) == \E i \in 1..Len(s) : s[i] = x

\* slices.Index, counted from 0 as in Go; -1 when absent.
Index(s, x) == IF Contains(s, x) THEN (CHOOSE i \in 1..Len(s) : s[i] = x /\ \A j \in 1..(i - 1) : s[j] # x) - 1
               ELSE 0 - 1

\* slices.Delete(s, i, j): s without s[i:j], Go's 0-based half-open range; it
\* panics when s[i:j] is not a valid slice of s.
SlicesDelete(s, i, j) ==
    IF i < 0 \/ i > j \/ j > Len(s) THEN [panic |-> TRUE, s |-> s]
    ELSE [panic |-> FALSE, s |-> SubSeq(s, 1, i) \o SubSeq(s, j + 1, Len(s))]

\* ------------------------------------------------------------ mirrorStatus

MirrorPatched(w) ==
    IF w.res # "ok" THEN Outcome(w.c, FALSE, Err("status")) ELSE Outcome(w.c, FALSE, NoErr)

\* MirrorGot sending the owner's own status back.
MirrorGotStale(g, owner, ing) ==
    IF g.res = "notfound" THEN Outcome(g.c, FALSE, NoErr)
    ELSE IF g.res = "fail" THEN Outcome(g.c, FALSE, Err("get-owner"))
    ELSE MirrorPatched(ClientStatusPatch(g.c, owner, Deref(g.obj), Deref(g.obj)))

\* MirrorGot returning the error of a Get that finds no owner.
MirrorGotStrict(g, owner, ing) ==
    IF g.res # "ok" THEN Outcome(g.c, FALSE, Err("get-owner"))
    ELSE MirrorPatched(ClientStatusPatch(g.c, owner, Deref(g.obj),
                                         [Deref(g.obj) EXCEPT !.status = ing.status]))

\* mirrorStatus after the Get of the owner.
MirrorGot(g, owner, ing) ==
    IF g.res = "notfound" THEN Outcome(g.c, FALSE, NoErr)
    ELSE IF g.res = "fail" THEN Outcome(g.c, FALSE, Err("get-owner"))
    ELSE MirrorPatched(ClientStatusPatch(g.c, owner, Deref(g.obj),
                                         [Deref(g.obj) EXCEPT !.status = ing.status]))

\* mirrorStatus after the split of the owner label.
MirrorSplit(c, ing, spl) ==
    IF Len(spl) # 2 THEN Outcome(c, FALSE, Err("owner-label"))
    ELSE Then(ClientGet(c, "Ingress", Key(spl[1], spl[2])),
              LAMBDA g : MirrorGot(g, Key(spl[1], spl[2]), ing))

mirrorStatus(c, ing) ==
    IF OwningLabel \notin DOMAIN ing.labels THEN Outcome(c, FALSE, NoErr)
    ELSE MirrorSplit(c, ing, Split(ing.labels[OwningLabel], StrDashDash))

\* --------------------------------------------------------- deleteResources

PruneGot(g, kind, key) ==
    IF g.res = "ok" THEN Wrote(ClientDelete(g.c, kind, key))
    ELSE [c |-> g.c, err |-> g.res = "fail"]

\* One of the three blocks of deleteResources: Get, then Delete when found;
\* not-found on the Get is ignored, any error of the Delete is returned.
PruneOne(c, kind, key) == Then(ClientGet(c, kind, key), LAMBDA g : PruneGot(g, kind, key))

\* The next block, reached only when the blocks before returned no error.
PruneNext(p, kind, key) == IF p.err THEN p ELSE PruneOne(p.c, kind, key)

PruneAll(c, key) ==
    Then(PruneOne(c, "Ingress", key), LAMBDA i :
    Then(PruneNext(i, "Service", key), LAMBDA s :
         PruneNext(s, "Deployment", key)))

\* Another actor deletes the resource of the kind lost right after the Get
\* that found it.
Lost(g, kind, key, lost) ==
    IF kind = lost /\ g.res = "ok" THEN [g EXCEPT !.c.objs[kind] = Without(@, key)] ELSE g

\* PruneOne, PruneNext and PruneAll while another actor deletes the resource
\* of the kind lost between the Get and the Delete.
PruneOneRaced(c, kind, key, lost) ==
    Then(ClientGet(c, kind, key), LAMBDA g : PruneGot(Lost(g, kind, key, lost), kind, key))

PruneNextRaced(p, kind, key, lost) ==
    IF p.err THEN p ELSE PruneOneRaced(p.c, kind, key, lost)

PruneAllRaced(c, key, lost) ==
    Then(PruneOneRaced(c, "Ingress", key, lost), LAMBDA i :
    Then(PruneNextRaced(i, "Service", key, lost), LAMBDA s :
         PruneNextRaced(s, "Deployment", key, lost)))

deleteResources(c, name) == PruneAll(c, Key(cfg.Namespace, StrIaPrefix \o name))

\* ---------------------------------------------------- getTargetFromService

\* The loop over svc.Spec.Ports: port becomes the Port of the first port named
\* portName, and stays as it was when there is none.
PortNamed(ports, portName, port) ==
    IF \E i \in 1..Len(ports) : ports[i].name = portName
    THEN ports[CHOOSE i \in 1..Len(ports) :
                 ports[i].name = portName /\ \A j \in 1..(i - 1) : ports[j].name # portName].port
    ELSE port

\* fmt.Sprintf("http://%s.%s.svc.cluster.local:%d", name, ns, port)
TargetOf(name, ns, port) ==
    StrTargetScheme \o name \o <<".">> \o ns \o StrTargetDomain \o Itoa(port)

\* TargetResolved without the check that a port was found.
TargetResolvedUnchecked(c, ns, b, port) ==
    [c |-> c, target |-> TargetOf(b.name, ns, port), err |-> NoErr]

TargetResolved(c, ns, b, port) ==
    IF port = 0 THEN [c |-> c, target |-> <<>>, err |-> Err("target-port")]
    ELSE [c |-> c, target |-> TargetOf(b.name, ns, port), err |-> NoErr]

\* getTargetFromService after the Get of the service.
TargetGot(g, ns, b) ==
    IF g.res # "ok" THEN [c |-> g.c, target |-> <<>>, err |-> Err("target-lookup")]
    ELSE TargetResolved(g.c, ns, b, PortNamed(Deref(g.obj).spec.ports, b.port.name, b.port.number))

\* getTargetFromService reading the service whatever the backend's port.
getTargetFromServiceAlwaysRead(c, ns, isb) ==
    IF IsNil(isb) THEN [c |-> c, target |-> <<>>, err |-> Panic("target")]
    ELSE Then(ClientGet(c, "Service", Key(ns, Deref(isb).name)),
              LAMBDA g : TargetGot(g, ns, Deref(isb)))

\* isb is a pointer; reading isb.Port through a nil pointer panics.
getTargetFromService(c, ns, isb) ==
    IF IsNil(isb) THEN [c |-> c, target |-> <<>>, err |-> Panic("target")]
    ELSE IF Deref(isb).port.name # <<>>
    THEN Then(ClientGet(c, "Service", Key(ns, Deref(isb).name)),
              LAMBDA g : TargetGot(g, ns, Deref(isb)))
    ELSE [c |-> c, target |-> TargetOf(Deref(isb).name, ns, Deref(isb).port.number), err |-> NoErr]

\* ----------------------------------------------------- reconcileDeployment

\* Every key an environment map of this model can hold, in one fixed order.
EnvKeyOrder ==
    <<"BIND", "DIFFICULTY", "METRICS_BIND", "OG_PASSTHROUGH", "SERVE_ROBOTS_TXT", "TARGET",
      "COOKIE_DOMAIN">>

\* s rotated to start at its element number k + 1.
Rotate(s, k) == SubSeq(s, k + 1, Len(s)) \o SubSeq(s, 1, k)

\* The keys of the map m in the order a range statement visits them.  Go
\* leaves that order unspecified and the runtime starts each range at a
\* random place: the order is the keys' rotated by the offset of the pass.
RangeKeys(m, offset) ==
    LET keys == SelectSeq(EnvKeyOrder, LAMBDA k : k \in DOMAIN m)
    IN  IF Len(keys) = 0 THEN keys ELSE Rotate(keys, offset % Len(keys))

\* EngineEnv assigning the six keys only where the static map has no value.
EngineEnvStaticWins(envVars, target, icfg) ==
    [k \in DOMAIN envVars \cup
           {"BIND", "DIFFICULTY", "METRICS_BIND", "SERVE_ROBOTS_TXT", "TARGET", "OG_PASSTHROUGH"}
        |-> IF k \in DOMAIN envVars THEN envVars[k]
            ELSE IF k = "BIND" THEN <<":", "8", "0", "8", "0">>
            ELSE IF k = "DIFFICULTY" THEN Itoa(Deref(icfg.Difficulty))
            ELSE IF k = "METRICS_BIND" THEN <<":">> \o Itoa(Deref(icfg.MetricsPort))
            ELSE IF k = "SERVE_ROBOTS_TXT" THEN FormatBool(Deref(icfg.ServeRobotsTxt))
            ELSE IF k = "TARGET" THEN target
            ELSE FormatBool(Deref(icfg.OGPassthrough))]

\* envVars after the six assignments of reconcileDeployment.
EngineEnv(envVars, target, icfg) ==
    [k \in DOMAIN envVars \cup
           {"BIND", "DIFFICULTY", "METRICS_BIND", "SERVE_ROBOTS_TXT", "TARGET", "OG_PASSTHROUGH"}
        |-> IF k = "BIND" THEN <<":", "8", "0", "8", "0">>
            ELSE IF k = "DIFFICULTY" THEN Itoa(Deref(icfg.Difficulty))
            ELSE IF k = "METRICS_BIND" THEN <<":">> \o Itoa(Deref(icfg.MetricsPort))
            ELSE IF k = "SERVE_ROBOTS_TXT" THEN FormatBool(Deref(icfg.ServeRobotsTxt))
            ELSE IF k = "TARGET" THEN target
            ELSE IF k = "OG_PASSTHROUGH" THEN FormatBool(Deref(icfg.OGPassthrough))
            ELSE envVars[k]]

\* cEnvVars: one EnvVar per entry of the map, in the order of the range.
EnvVarList(envVars, offset) ==
    LET keys == RangeKeys(envVars, offset)
    IN  [i \in 1..Len(keys) |-> [name |-> keys[i], value |-> envVars[keys[i]]]]

BlankDeployment ==
    [labels |-> EmptyMap, creationTimestamp |-> FALSE,
     spec |-> [selector |-> Nil, replicas |-> Nil, strategy |-> "",
               template |-> [labels |-> EmptyMap, env |-> <<>>, ports |-> <<>>]]]

\* MutateDeployment setting the selector on every pass.
MutateDeploymentSelectorAlways(dep, target, icfg, req, offset) ==
    [dep EXCEPT
        !.spec.selector = Ptr(GeneratedLabels(req)),
        !.labels = GeneratedLabels(req),
        !.spec.replicas = Ptr(1),
        !.spec.strategy = "Recreate",
        !.spec.template =
            [labels |-> GeneratedLabels(req),
             env |-> Then(EngineEnv(cfg.EnvironmentVariables, target, icfg),
                          LAMBDA envVars : EnvVarList(envVars, offset)),
             ports |-> <<[name |-> StrHttp, containerPort |-> 8080],
                         [name |-> <<"h", "t", "t", "p", "-", "m", "e", "t", "r", "i", "c", "s">>,
                          containerPort |-> Deref(icfg.MetricsPort)]>>]]

\* The mutate function handed to CreateOrUpdate by reconcileDeployment.
MutateDeployment(dep, target, icfg, req, offset) ==
    LET labels == GeneratedLabels(req)
    IN  [dep EXCEPT
            !.spec.selector = IF dep.creationTimestamp THEN @ ELSE Ptr(labels),
            !.labels = labels,
            !.spec.replicas = Ptr(1),
            !.spec.strategy = "Recreate",
            !.spec.template =
                [labels |-> labels,
                 env |-> Then(EngineEnv(cfg.EnvironmentVariables, target, icfg),
                              LAMBDA envVars : EnvVarList(envVars, offset)),
                 ports |-> <<[name |-> StrHttp, containerPort |-> 8080],
                             [name |-> <<"h", "t", "t", "p", "-", "m", "e", "t", "r", "i", "c", "s">>,
                              containerPort |-> Deref(icfg.MetricsPort)]>>]]

reconcileDeployment(c, target, icfg, req) ==
    Then(ClientGet(c, "Deployment", GeneratedKey(req)), LAMBDA g :
    Then(MutateDeployment(Fetched(g, BlankDeployment), target, icfg, req, c.mapOffset),
         LAMBDA dep : CreateOrUpdate(g, "Deployment", GeneratedKey(req), BlankDeployment, dep)))

\* -------------------------------------------------------- reconcileService

BlankService == [labels |-> EmptyMap, spec |-> [ports |-> <<>>, selector |-> EmptyMap, type |-> ""]]

\* The mutate function handed to CreateOrUpdate by reconcileService.
MutateService(serv, req) ==
    [serv EXCEPT
        !.spec.ports = <<[name |-> StrHttp, port |-> 8080, protocol |-> "TCP",
                          targetPort |-> StrHttp]>>,
        !.spec.selector = GeneratedLabels(req),
        !.spec.type = "ClusterIP"]

reconcileService(c, req) ==
    Then(ClientGet(c, "Service", GeneratedKey(req)), LAMBDA g :
    Then(MutateService(Fetched(g, BlankService), req),
         LAMBDA serv : CreateOrUpdate(g, "Service", GeneratedKey(req), BlankService, serv)))

\* --------------------------------------------------- reconcileChildIngress

NoStatus == <<>>

BlankIngress ==
    [spec |-> [ingressClassName |-> Nil, defaultBackend |-> Nil, rules |-> <<>>],
     labels |-> EmptyMap, annotations |-> EmptyMap, finalizers |-> <<>>,
     deletionTimestamp |-> FALSE, status |-> NoStatus]

\* The backend every host is pointed to: the generated service, port "http".
WrapperBackend(req) ==
    [name |-> StrIaPrefix \o req.name, port |-> [name |-> StrHttp, number |-> 0]]

\* RewriteRule replacing the Service of the first path only.
RewriteRuleFirstPath(r, backend) ==
    IF IsNil(r.http) THEN r
    ELSE [r EXCEPT !.http = Ptr([paths |->
            [j \in 1..Len(Deref(r.http).paths) |->
                IF j > 1 THEN Deref(r.http).paths[j]
                ELSE [Deref(r.http).paths[j] EXCEPT !.backend.service = Ptr(backend)]]])]

\* A rule with the Service of each of its paths' backends replaced; a rule
\* without an HTTP section is left as it is.
RewriteRule(r, backend) ==
    IF IsNil(r.http) THEN r
    ELSE [r EXCEPT !.http = Ptr([paths |->
            [j \in 1..Len(Deref(r.http).paths) |->
                [Deref(r.http).paths[j] EXCEPT !.backend.service = Ptr(backend)]]])]

\* MutateChildIngress leaving the class of the copied spec as it is.
MutateChildIngressClassCopied(ing, origIng, icfg, req) ==
    [ing EXCEPT
        !.spec = [ingressClassName |-> origIng.spec.ingressClassName,
                  defaultBackend |->
                      IF IsNil(origIng.spec.defaultBackend) THEN Nil
                      ELSE Ptr([Deref(origIng.spec.defaultBackend)
                                   EXCEPT !.service = Ptr(WrapperBackend(req))]),
                  rules |-> [i \in 1..Len(origIng.spec.rules) |->
                                RewriteRule(origIng.spec.rules[i], WrapperBackend(req))]],
        !.annotations = origIng.annotations,
        !.labels = GeneratedLabels(req) @@ @]

\* The mutate function handed to CreateOrUpdate by reconcileChildIngress.
MutateChildIngress(ing, origIng, icfg, req) ==
    LET labels == GeneratedLabels(req)
        backend == WrapperBackend(req)
        class == IF ~IsNil(icfg.IngressClass) THEN icfg.IngressClass
                 ELSE Ptr(cfg.WrappedIngressClassName)
    IN  [ing EXCEPT
            !.spec = [ingressClassName |-> class,
                      defaultBackend |->
                          IF IsNil(origIng.spec.defaultBackend) THEN Nil
                          ELSE Ptr([Deref(origIng.spec.defaultBackend)
                                       EXCEPT !.service = Ptr(backend)]),
                      rules |-> [i \in 1..Len(origIng.spec.rules) |->
                                    RewriteRule(origIng.spec.rules[i], backend)]],
            !.annotations = origIng.annotations,
            !.labels = labels @@ @]

reconcileChildIngress(c, origIng, icfg, req) ==
    Then(ClientGet(c, "Ingress", GeneratedKey(req)), LAMBDA g :
    Then(MutateChildIngress(Fetched(g, BlankIngress), origIng, icfg, req),
         LAMBDA ing : CreateOrUpdate(g, "Ingress", GeneratedKey(req), BlankIngress, ing)))

\* --------------------------------------------------------------- Reconcile

\* The backend Reconcile resolves: the default backend's when there is one,
\* the first path's of the first rule otherwise; a terminal error when the
\* ingress has neither.
\* SelectBackend returning the error of an ingress without backends unwrapped.
SelectBackendRetriable(origIng) ==
    IF ~IsNil(origIng.spec.defaultBackend)
    THEN [err |-> NoErr, svcBackend |-> Deref(origIng.spec.defaultBackend).service]
    ELSE IF Len(origIng.spec.rules) = 0
    THEN [err |-> Err("no-rules"), svcBackend |-> Nil]
    ELSE IF IsNil(origIng.spec.rules[1].http)
    THEN [err |-> TerminalError("rule-http-nil"), svcBackend |-> Nil]
    ELSE IF Len(Deref(origIng.spec.rules[1].http).paths) = 0
    THEN [err |-> TerminalError("paths-empty"), svcBackend |-> Nil]
    ELSE [err |-> NoErr, svcBackend |-> Deref(origIng.spec.rules[1].http).paths[1].backend.service]

\* SelectBackend returning the errors about the first rule unwrapped.
SelectBackendFirstRuleRetriable(origIng) ==
    IF ~IsNil(origIng.spec.defaultBackend)
    THEN [err |-> NoErr, svcBackend |-> Deref(origIng.spec.defaultBackend).service]
    ELSE IF Len(origIng.spec.rules) = 0
    THEN [err |-> TerminalError("no-rules"), svcBackend |-> Nil]
    ELSE IF IsNil(origIng.spec.rules[1].http)
    THEN [err |-> Err("rule-http-nil"), svcBackend |-> Nil]
    ELSE IF Len(Deref(origIng.spec.rules[1].http).paths) = 0
    THEN [err |-> Err("paths-empty"), svcBackend |-> Nil]
    ELSE [err |-> NoErr, svcBackend |-> Deref(origIng.spec.rules[1].http).paths[1].backend.service]

\* SelectBackend taking the last path of the first rule.
SelectBackendLastPath(origIng) ==
    IF ~IsNil(origIng.spec.defaultBackend)
    THEN [err |-> NoErr, svcBackend |-> Deref(origIng.spec.defaultBackend).service]
    ELSE IF Len(origIng.spec.rules) = 0
    THEN [err |-> TerminalError("no-rules"), svcBackend |-> Nil]
    ELSE IF IsNil(origIng.spec.rules[1].http)
    THEN [err |-> TerminalError("rule-http-nil"), svcBackend |-> Nil]
    ELSE IF Len(Deref(origIng.spec.rules[1].http).paths) = 0
    THEN [err |-> TerminalError("paths-empty"), svcBackend |-> Nil]
    ELSE [err |-> NoErr,
          svcBackend |-> Deref(origIng.spec.rules[1].http).paths[
                             Len(Deref(origIng.spec.rules[1].http).paths)].backend.service]

SelectBackend(origIng) ==
    IF ~IsNil(origIng.spec.defaultBackend)
    THEN [err |-> NoErr, svcBackend |-> Deref(origIng.spec.defaultBackend).service]
    ELSE IF Len(origIng.spec.rules) = 0
    THEN [err |-> TerminalError("no-rules"), svcBackend |-> Nil]
    ELSE IF IsNil(origIng.spec.rules[1].http)
    THEN [err |-> TerminalError("rule-http-nil"), svcBackend |-> Nil]
    ELSE IF Len(Deref(origIng.spec.rules[1].http).paths) = 0
    THEN [err |-> TerminalError("paths-empty"), svcBackend |-> Nil]
    ELSE [err |-> NoErr, svcBackend |-> Deref(origIng.spec.rules[1].http).paths[1].backend.service]

\* The end of a pass whose last step is a write to the store.
Finished(w, requeue, at) ==
    IF w.err THEN Outcome(w.c, FALSE, Err(at)) ELSE Outcome(w.c, requeue, NoErr)

RemoveFinalizer(c, origIng, req, d) ==
    IF d.panic THEN Outcome(c, FALSE, Panic("remove-finalizer"))
    ELSE Finished(Wrote(ClientPatch(c, req, origIng, [origIng EXCEPT !.finalizers = d.s])),
                  FALSE, "remove-finalizer")

\* ReconcilePruned without its check of the prune's error.
ReconcilePrunedUnchecked(p, origIng, req) ==
    IF ~Contains(origIng.finalizers, FinalizerKey) THEN Outcome(p.c, FALSE, NoErr)
    ELSE RemoveFinalizer(p.c, origIng, req,
             SlicesDelete(origIng.finalizers, Index(origIng.finalizers, FinalizerKey), 1))

\* The deletion branch after the prune.
ReconcilePruned(p, origIng, req) ==
    IF p.err THEN Outcome(p.c, FALSE, Err("prune"))
    ELSE IF ~Contains(origIng.finalizers, FinalizerKey) THEN Outcome(p.c, FALSE, NoErr)
    ELSE RemoveFinalizer(p.c, origIng, req,
             SlicesDelete(origIng.finalizers, Index(origIng.finalizers, FinalizerKey), 1))

\* ReconcileDeleted taking the finalizer off without the prune.
ReconcileDeletedUnpruned(c, origIng, req) ==
    ReconcilePruned([c |-> c, err |-> FALSE], origIng, req)

\* The deletion branch: prune, then take the finalizer off when it is there.
ReconcileDeleted(c, origIng, req) ==
    Then(deleteResources(c, req.name), LAMBDA p : ReconcilePruned(p, origIng, req))

\* SyncService going on after a failure of reconcileDeployment.
SyncServiceUnchecked(d, origIng, icfg, req) ==
    Then(reconcileService(d.c, req), LAMBDA s : Finished(s, FALSE, "service"))

SyncService(d, origIng, icfg, req) ==
    IF d.err THEN Outcome(d.c, FALSE, Err("deployment"))
    ELSE Then(reconcileService(d.c, req), LAMBDA s : Finished(s, FALSE, "service"))

\* SyncChildIngress leaving the child ingress out.
SyncChildIngressSkipped(o, origIng, icfg, req) == o

\* SyncChildIngress sending the child's status to the source as well.
SyncChildIngressMirroring(o, origIng, icfg, req) ==
    IF o.err # NoErr THEN o
    ELSE Then(reconcileChildIngress(o.c, origIng, icfg, req), LAMBDA i :
         IF i.err THEN Outcome(i.c, FALSE, Err("child-ingress"))
         ELSE MirrorPatched(ClientStatusPatch(i.c, req, origIng,
                  [origIng EXCEPT !.status = i.c.objs.Ingress[GeneratedKey(req)].status])))

SyncChildIngress(o, origIng, icfg, req) ==
    IF o.err # NoErr THEN o
    ELSE Then(reconcileChildIngress(o.c, origIng, icfg, req),
              LAMBDA i : Finished(i, FALSE, "child-ingress"))

\* Reconcile from the call of GetIngressConfigFromIngress on.
SyncConfigured(c, target, i, origIng, req) ==
    IF ~IsNil(i.err) THEN Outcome(c, FALSE, Err("config"))
    ELSE Then(reconcileDeployment(c, target, Deref(i.cfg), req), LAMBDA d :
         Then(SyncService(d, origIng, Deref(i.cfg), req), LAMBDA o :
              SyncChildIngress(o, origIng, Deref(i.cfg), req)))

SyncTargeted(t, origIng, req) ==
    IF t.err # NoErr THEN Outcome(t.c, FALSE, t.err)
    ELSE Then(IngressConfigOf(origIng),
              LAMBDA i : SyncConfigured(t.c, t.target, i, origIng, req))

SyncSelected(c, sel, origIng, req) ==
    IF sel.err # NoErr THEN Outcome(c, FALSE, sel.err)
    ELSE Then(getTargetFromService(c, req.ns, sel.svcBackend),
              LAMBDA t : SyncTargeted(t, origIng, req))

\* The rest of Reconcile for a claimed ingress that carries the finalizer.
ReconcileSync(c, origIng, req) == SyncSelected(c, SelectBackend(origIng), origIng, req)

\* ReconcileAddFinalizer going on to synchronize in the same pass.
ReconcileAddFinalizerThenSync(c, origIng, req) ==
    Then(ClientPatch(c, req, origIng, [origIng EXCEPT !.finalizers = Append(@, FinalizerKey)]),
         LAMBDA w : ReconcileSync(w.c, origIng, req))

\* The branch that attaches the finalizer and asks to be run again.
ReconcileAddFinalizer(c, origIng, req) ==
    Finished(Wrote(ClientPatch(c, req, origIng,
                       [origIng EXCEPT !.finalizers = Append(@, FinalizerKey)])),
             TRUE, "add-finalizer")

\* Reconcile for the ingress it read.
\* ReconcileIngress without the rejection of an ingress of the engine's class
\* that is marked as managed.
ReconcileIngressSelfOwned(c, origIng, req) ==
    IF IsNil(origIng.spec.ingressClassName)
       \/ Deref(origIng.spec.ingressClassName) # cfg.IngressClassName
    THEN IF MapGet(origIng.labels, ManagedLabel) = StrTrue
         THEN mirrorStatus(c, origIng)
         ELSE Outcome(c, FALSE, NoErr)
    ELSE IF origIng.deletionTimestamp THEN ReconcileDeleted(c, origIng, req)
    ELSE IF ~Contains(origIng.finalizers, FinalizerKey)
    THEN ReconcileAddFinalizer(c, origIng, req)
    ELSE ReconcileSync(c, origIng, req)

\* ReconcileIngress claiming an ingress of any class.
ReconcileIngressAnyClass(c, origIng, req) ==
    IF MapGet(origIng.labels, ManagedLabel) = StrTrue
    THEN IF origIng.spec.ingressClassName = Ptr(cfg.IngressClassName)
         THEN Outcome(c, FALSE, TerminalError("self-owned"))
         ELSE mirrorStatus(c, origIng)
    ELSE IF origIng.deletionTimestamp THEN ReconcileDeleted(c, origIng, req)
    ELSE IF ~Contains(origIng.finalizers, FinalizerKey)
    THEN ReconcileAddFinalizer(c, origIng, req)
    ELSE ReconcileSync(c, origIng, req)

\* ReconcileIngress synchronizing an ingress of the engine's class that is
\* marked as managed.
ReconcileIngressSelfSynced(c, origIng, req) ==
    IF IsNil(origIng.spec.ingressClassName)
       \/ Deref(origIng.spec.ingressClassName) # cfg.IngressClassName
    THEN IF MapGet(origIng.labels, ManagedLabel) = StrTrue
         THEN mirrorStatus(c, origIng)
         ELSE Outcome(c, FALSE, NoErr)
    ELSE IF MapGet(origIng.labels, ManagedLabel) = StrTrue
    THEN ReconcileSync(c, origIng, req)
    ELSE IF origIng.deletionTimestamp THEN ReconcileDeleted(c, origIng, req)
    ELSE IF ~Contains(origIng.finalizers, FinalizerKey)
    THEN ReconcileAddFinalizer(c, origIng, req)
    ELSE ReconcileSync(c, origIng, req)

ReconcileIngress(c, origIng, req) ==
    IF IsNil(origIng.spec.ingressClassName)
       \/ Deref(origIng.spec.ingressClassName) # cfg.IngressClassName
    THEN IF MapGet(origIng.labels, ManagedLabel) = StrTrue
         THEN mirrorStatus(c, origIng)
         ELSE Outcome(c, FALSE, NoErr)
    ELSE IF MapGet(origIng.labels, ManagedLabel) = StrTrue
    THEN Outcome(c, FALSE, TerminalError("self-owned"))
    ELSE IF origIng.deletionTimestamp THEN ReconcileDeleted(c, origIng, req)
    ELSE IF ~Contains(origIng.finalizers, FinalizerKey)
    THEN ReconcileAddFinalizer(c, origIng, req)
    ELSE ReconcileSync(c, origIng, req)

ReconcileGot(g, req) ==
    IF g.res = "notfound" THEN Outcome(g.c, FALSE, NoErr)
    ELSE IF g.res = "fail" THEN Outcome(g.c, FALSE, Err("get"))
    ELSE ReconcileIngress(g.c, Deref(g.obj), req)

Reconcile(c, req) == Then(ClientGet(c, "Ingress", req), LAMBDA g : ReconcileGot(g, req))

\* ------------------------------------------------- the cluster of the model

StrShop == <<"s", "h", "o", "p">>

StrWeb == <<"w", "e", "b">>

StrApp == <<"a", "p", "p">>

StrApi == <<"a", "p", "i">>

StrNginx == <<"n", "g", "i", "n", "x">>

StrTraefik == <<"t", "r", "a", "e", "f", "i", "k">>

StrEngineNamespace ==
    <<"i", "n", "g", "r", "e", "s", "s", "-", "a", "n", "u", "b", "i", "s">>

\* config.Config as Load returns it from an environment that also sets two
\* static environment variables for the workers, one of them BIND.
DefaultConfig ==
    [Namespace |-> StrEngineNamespace,
     IngressClassName |-> StrAnubis,
     WrappedIngressClassName |-> StrNginx,
     EnvironmentVariables |-> [k \in {"BIND", "COOKIE_DOMAIN"} |->
                                  IF k = "BIND" THEN <<":", "9">> ELSE <<"x">>]]

\* An IngressBackend that names a service, by port number or by port name.
ServiceBackend(name, portName, portNumber) ==
    [service |-> Ptr([name |-> name, port |-> [name |-> portName, number |-> portNumber]]),
     resource |-> Nil]

\* An IngressBackend that names a resource instead of a service.
ResourceBackend == [service |-> Nil, resource |-> Ptr("bucket")]

HttpRule(host, backends) ==
    [host |-> host,
     http |-> Ptr([paths |-> [j \in 1..Len(backends) |-> [path |-> j, backend |-> backends[j]]]])]

BareRule(host) == [host |-> host, http |-> Nil]

IngressSpec(defaultBackend, rules) == [defaultBackend |-> defaultBackend, rules |-> rules]

\* Scenario A of the specification: a default backend on a numeric port.
SpecDefaultNumeric == IngressSpec(Ptr(ServiceBackend(StrApp, <<>>, 8080)), <<>>)

\* No default backend: the first path of the first rule, by port name.
SpecRuleNamed == IngressSpec(Nil, <<HttpRule("a", <<ServiceBackend(StrApp, StrWeb, 0)>>)>>)

\* A default backend, a rule without an HTTP section and a rule of two paths.
SpecMixed ==
    IngressSpec(Ptr(ServiceBackend(StrApp, <<>>, 8080)),
                <<BareRule("a"),
                  HttpRule("b", <<ServiceBackend(StrApi, <<>>, 81),
                                  ServiceBackend(StrApp, StrWeb, 0)>>)>>)

SpecEmpty == IngressSpec(Nil, <<>>)

MainSpecs == {SpecDefaultNumeric, SpecRuleNamed, SpecEmpty}

SyncSpecs == {SpecDefaultNumeric, SpecRuleNamed, SpecMixed}

Annotations(difficulty, robots, class) ==
    [k \in (IF IsNil(difficulty) THEN {} ELSE {AnnotationKeyDifficulty})
           \cup (IF IsNil(robots) THEN {} ELSE {AnnotationKeyServeRobotsTxt})
           \cup (IF IsNil(class) THEN {} ELSE {AnnotationKeyIngressClass})
        |-> IF k = AnnotationKeyDifficulty THEN Deref(difficulty)
            ELSE IF k = AnnotationKeyServeRobotsTxt THEN Deref(robots)
            ELSE Deref(class)]

MainAnnotations ==
    {EmptyMap,
     Annotations(Ptr(<<"7">>), Ptr(StrFalse), Ptr(StrTraefik)),
     Annotations(Ptr(<<"a", "b", "c">>), Nil, Nil)}

\* The annotations of the convergence runs: none, a difficulty that does not
\* parse, and a wrapped class that is the engine's own.
LiveAnnotations ==
    {EmptyMap,
     Annotations(Ptr(<<"a", "b", "c">>), Nil, Nil),
     Annotations(Nil, Nil, Ptr(StrAnubis))}

Classes == {Nil, Ptr(StrAnubis), Ptr(StrNginx)}

ForeignFinalizer == "example.com/other"

\* The finalizers an ingress may be created with.
InitialFinalizers == {<<>>, <<ForeignFinalizer>>}

SourceKeys == {Key(StrShop, StrWeb)}

\* The service the model's ingresses route to, in its three conditions: with
\* the port the ingresses name, without it, and absent.
BackendKey == Key(StrShop, StrApp)

BackendService(ports) ==
    [labels |-> EmptyMap, spec |-> [ports |-> ports, selector |-> EmptyMap, type |-> "ClusterIP"]]

BackendWithPort ==
    BackendService(<<[name |-> StrHttp, port |-> 80, protocol |-> "TCP", targetPort |-> StrHttp],
                     [name |-> StrWeb, port |-> 8443, protocol |-> "TCP", targetPort |-> StrWeb]>>)

BackendWithoutPort ==
    BackendService(<<[name |-> StrHttp, port |-> 80, protocol |-> "TCP", targetPort |-> StrHttp]>>)

StatusValues == {NoStatus, <<"203.0.113.7">>}

\* Every ingress a request may name: the sources and their children.
RequestKeys == SourceKeys \cup {Key(StrEngineNamespace, StrIaPrefix \o k.name) : k \in SourceKeys}

\* No pass has run since the store was last changed from outside.
NoPass ==
    [ran |-> FALSE, req |-> Key(<<>>, <<>>), read |-> Nil, ops |-> <<>>,
     requeue |-> FALSE, err |-> NoErr]

\* ------------------------------------------------------------------ actions

\* The position of the last store call that a pass may be made to fail.
MaxFailAt == 8

\* The offsets a range over a map may start at.
MaxMapOffset == 1

\* The state after a pass with outcome r for the request req, which read the
\* ingress read.
AfterPass(req, read, r) ==
    /\ ingresses' = r.c.objs.Ingress
    /\ services' = r.c.objs.Service
    /\ deployments' = r.c.objs.Deployment
    /\ last' = [ran |-> TRUE, req |-> req, read |-> read, ops |-> r.c.ops,
                requeue |-> r.requeue, err |-> r.err]

\* One pass of the reconciler for the request req, the store failing the
\* call number failAt (none when 0).
ReconcilePass(req, failAt, offset) ==
    /\ UNCHANGED <<cfg, userOps, exIn, exOut, inFlight>>
    /\ \E r \in {Reconcile(Ctx(failAt, offset), req)} :
          \E read \in {ClientGet(Ctx(failAt, offset), "Ingress", req).obj} :
              AfterPass(req, read, r)

\* How many changes from outside a run with a budget allows.
MaxUserOps == 3

\* The value of userOps in a run without a budget.
Unbudgeted == 0 - 1

\* A change made from outside the reconciler.
Outside(newIngresses, newServices, newDeployments) ==
    /\ IF userOps = Unbudgeted THEN userOps' = userOps
       ELSE userOps < MaxUserOps /\ userOps' = userOps + 1
    /\ ingresses' = newIngresses
    /\ services' = newServices
    /\ deployments' = newDeployments
    /\ last' = NoPass
    /\ UNCHANGED <<cfg, exIn, exOut, inFlight>>

\* A user creates a source ingress.
UserCreate(k, class, spec, annotations, finalizers) ==
    /\ k \notin DOMAIN ingresses
    /\ Outside(MapSet(ingresses, k,
                   [spec |-> [ingressClassName |-> class,
                              defaultBackend |-> spec.defaultBackend, rules |-> spec.rules],
                    labels |-> EmptyMap, annotations |-> annotations,
                    finalizers |-> finalizers, deletionTimestamp |-> FALSE,
                    status |-> NoStatus]),
               services, deployments)

\* A user changes the class of a source ingress.
UserSetClass(k, class) ==
    /\ k \in DOMAIN ingresses
    /\ ingresses[k].spec.ingressClassName # class
    /\ Outside([ingresses EXCEPT ![k].spec.ingressClassName = class], services, deployments)

\* A user changes the backends and the annotations of a source ingress.
UserUpdate(k, spec, annotations) ==
    /\ k \in DOMAIN ingresses
    /\ Outside([ingresses EXCEPT ![k].spec.defaultBackend = spec.defaultBackend,
                                 ![k].spec.rules = spec.rules,
                                 ![k].annotations = annotations],
               services, deployments)

\* A user deletes a source ingress.
UserDelete(k) ==
    /\ k \in DOMAIN ingresses
    /\ ~ingresses[k].deletionTimestamp
    /\ Outside(ServerDelete(ingresses, "Ingress", k), services, deployments)

\* The controller that owns the foreign finalizer takes it off.
OtherRemovesFinalizer(k) ==
    /\ k \in DOMAIN ingresses
    /\ Contains(ingresses[k].finalizers, ForeignFinalizer)
    /\ Outside(ServerStored(ingresses, k,
                   [ingresses[k] EXCEPT !.finalizers = SeqMinus(@, <<ForeignFinalizer>>)]),
               services, deployments)

\* Somebody takes the engine's finalizer off a source by hand.
AdminRemovesFinalizer(k) ==
    /\ k \in DOMAIN ingresses
    /\ Contains(ingresses[k].finalizers, FinalizerKey)
    /\ Outside(ServerStored(ingresses, k,
                   [ingresses[k] EXCEPT !.finalizers = SeqMinus(@, <<FinalizerKey>>)]),
               services, deployments)

\* Somebody deletes a generated resource.
ExternalDelete(kind, k) ==
    LET g == Key(StrEngineNamespace, StrIaPrefix \o k.name)
    IN  \/ /\ kind = "Ingress" /\ g \in DOMAIN ingresses
           /\ Outside(ServerDelete(ingresses, "Ingress", g), services, deployments)
        \/ /\ kind = "Service" /\ g \in DOMAIN services
           /\ Outside(ingresses, Without(services, g), deployments)
        \/ /\ kind = "Deployment" /\ g \in DOMAIN deployments
           /\ Outside(ingresses, services, Without(deployments, g))

\* The controller of the wrapped class reports a status on a child ingress.
ChildStatus(k, st) ==
    LET g == Key(StrEngineNamespace, StrIaPrefix \o k.name)
    IN  /\ g \in DOMAIN ingresses
        /\ ingresses[g].status # st
        /\ Outside([ingresses EXCEPT ![g].status = st], services, deployments)

\* The backend service is created, changed or deleted.
BackendChange(svc) ==
    /\ IF IsNil(svc) THEN BackendKey \in DOMAIN services
       ELSE IF BackendKey \in DOMAIN services THEN services[BackendKey] # Deref(svc) ELSE TRUE
    /\ Outside(ingresses,
               IF IsNil(svc) THEN Without(services, BackendKey)
               ELSE MapSet(services, BackendKey, Deref(svc)),
               deployments)

\* The reconciler runs for any request, with any single store failure.
Reconciles ==
    \E req \in RequestKeys, offset \in 0..MaxMapOffset :
        \E failAt \in 0..Min(MaxFailAt, Len(Reconcile(Ctx(0, offset), req).c.ops)) :
            ReconcilePass(req, failAt, offset)

\* The reconciler runs for the request req and the store does not fail.
ReconcileOK(req) == \E offset \in 0..MaxMapOffset : ReconcilePass(req, 0, offset)

\* A pass reads the ingress of its request (the Get of Reconcile finds it)
\* and is held up before its next statement.
PassReads(req) ==
    /\ inFlight = Nil
    /\ req \in DOMAIN ingresses
    /\ inFlight' = Ptr([req |-> req, origIng |-> ingresses[req]])
    /\ UNCHANGED <<ingresses, services, deployments, cfg, last, userOps, exIn, exOut>>

\* The pass in flight goes on from the ingress it read, against the store as
\* it is now, to the end.
PassGoesOn ==
    /\ inFlight # Nil
    /\ inFlight' = Nil
    /\ UNCHANGED <<cfg, userOps, exIn, exOut>>
    /\ \E r \in {ReconcileIngress(Logged(Ctx(0, 0), "Get", "Ingress", Deref(inFlight).req, "ok"),
                                   Deref(inFlight).origIng, Deref(inFlight).req)} :
          AfterPass(Deref(inFlight).req, Ptr(Deref(inFlight).origIng), r)

\* A deletion pass for the claimed source req, during which another actor
\* deletes the generated resource of the kind lost between the Get of the
\* prune that finds it and the Delete.
RacedPrune(req, lost) ==
    /\ req \in DOMAIN ingresses
    /\ ingresses[req].spec.ingressClassName = Ptr(cfg.IngressClassName)
    /\ MapGet(ingresses[req].labels, ManagedLabel) # StrTrue
    /\ ingresses[req].deletionTimestamp
    /\ GeneratedKey(req) \in DOMAIN Ctx(0, 0).objs[lost]
    /\ UNCHANGED <<cfg, userOps, exIn, exOut, inFlight>>
    /\ \E r \in {Then(PruneAllRaced(Logged(Ctx(0, 0), "Get", "Ingress", req, "ok"),
                                    GeneratedKey(req), lost),
                      LAMBDA p : ReconcilePruned(p, ingresses[req], req))} :
          AfterPass(req, Ptr(ingresses[req]), r)

\* An empty cluster but for the backend service, before LoadConfig's result.
InitStore ==
    /\ ingresses = EmptyMap
    /\ services = (BackendKey :> BackendWithPort)
    /\ deployments = EmptyMap
    /\ cfg = DefaultConfig
    /\ last = NoPass
    /\ exIn = Nil
    /\ exOut = Nil
    /\ inFlight = Nil

\* ---------------------------------------------------------- specifications

\* The life of a source ingress: created with any class, reclassified,
\* deleted, its foreign finalizer released, its generated resources deleted
\* by others, its backend service changed; the store may fail any call.
Init == InitStore /\ userOps = Unbudgeted

Next ==
    \/ Reconciles
    \/ \E k \in SourceKeys, class \in Classes, spec \in MainSpecs, finalizers \in InitialFinalizers :
          UserCreate(k, class, spec, EmptyMap, finalizers)
    \/ \E k \in SourceKeys, class \in Classes : UserSetClass(k, class)
    \/ \E k \in SourceKeys : UserDelete(k)
    \/ \E k \in SourceKeys : OtherRemovesFinalizer(k)
    \/ \E k \in SourceKeys, kind \in {"Ingress", "Service", "Deployment"} : ExternalDelete(kind, k)
    \/ \E svc \in {Nil, Ptr(BackendWithPort), Ptr(BackendWithoutPort)} : BackendChange(svc)

Spec == Init /\ [][Next]_vars

\* Synchronization: claimed sources of every shape of backends and
\* annotations, edited by their users, their generated resources deleted by
\* others; the store may fail any call.
SyncNext ==
    \/ Reconciles
    \/ \E k \in SourceKeys, spec \in SyncSpecs, annotations \in MainAnnotations :
          UserCreate(k, Ptr(StrAnubis), spec, annotations, <<>>)
    \/ \E k \in SourceKeys, spec \in SyncSpecs, annotations \in MainAnnotations :
          UserUpdate(k, spec, annotations)
    \/ \E k \in SourceKeys, kind \in {"Ingress", "Service", "Deployment"} : ExternalDelete(kind, k)

SyncSpec == Init /\ [][SyncNext]_vars

\* The environment of the generated deployment: the engine is configured
\* with any of these static environment maps (none, a key of its own and
\* one the engine assigns, a key of its own and all six the engine assigns),
\* and sources that carry the finalizer are created and edited.
EngineOwnedKeys ==
    {"BIND", "DIFFICULTY", "METRICS_BIND", "SERVE_ROBOTS_TXT", "TARGET", "OG_PASSTHROUGH"}

StaticEnvironments ==
    {EmptyMap,
     DefaultConfig.EnvironmentVariables,
     [k \in EngineOwnedKeys \cup {"COOKIE_DOMAIN"} |-> <<"x">>]}

EnvAnnotations ==
    {EmptyMap,
     MapSet(Annotations(Ptr(<<"7">>), Ptr(StrFalse), Nil), AnnotationKeyOGPassthrough, StrFalse)}

EnvInit ==
    /\ ingresses = EmptyMap
    /\ services = (BackendKey :> BackendWithPort)
    /\ deployments = EmptyMap
    /\ cfg \in {[DefaultConfig EXCEPT !.EnvironmentVariables = e] : e \in StaticEnvironments}
    /\ last = NoPass
    /\ exIn = Nil
    /\ exOut = Nil
    /\ inFlight = Nil
    /\ userOps = Unbudgeted

EnvNext ==
    \/ Reconciles
    \/ \E k \in SourceKeys, spec \in {SpecDefaultNumeric, SpecRuleNamed},
           annotations \in EnvAnnotations :
          UserCreate(k, Ptr(StrAnubis), spec, annotations, <<FinalizerKey>>)
    \/ \E k \in SourceKeys, spec \in {SpecDefaultNumeric, SpecRuleNamed},
           annotations \in EnvAnnotations :
          UserUpdate(k, spec, annotations)

EnvSpec == EnvInit /\ [][EnvNext]_vars

\* Rules without paths: claimed sources that carry the finalizer and have a
\* rule without an HTTP section or with an empty path list, first or second,
\* with and without a default backend.
SpecBareFirst ==
    IngressSpec(Nil, <<BareRule("a"), HttpRule("b", <<ServiceBackend(StrApp, <<>>, 8080)>>)>>)

SpecBareSecond ==
    IngressSpec(Nil, <<HttpRule("a", <<ServiceBackend(StrApp, <<>>, 8080)>>), BareRule("b")>>)

SpecEmptyPathsFirst == IngressSpec(Nil, <<HttpRule("a", <<>>)>>)

SpecEmptyPathsDefault ==
    IngressSpec(Ptr(ServiceBackend(StrApp, <<>>, 8080)), <<HttpRule("a", <<>>)>>)

\* Two rules, the first of two paths: three backends, none the default.
SpecTwoRules ==
    IngressSpec(Nil, <<HttpRule("a", <<ServiceBackend(StrApp, <<>>, 8080),
                                       ServiceBackend(StrApi, <<>>, 81)>>),
                       HttpRule("b", <<ServiceBackend(StrApi, StrWeb, 0)>>)>>)

RuleSpecs ==
    {SpecRuleNamed, SpecMixed, SpecBareFirst, SpecBareSecond, SpecEmptyPathsFirst,
     SpecEmptyPathsDefault, SpecTwoRules}

RuleNext ==
    \/ Reconciles
    \/ \E k \in SourceKeys, spec \in RuleSpecs :
          UserCreate(k, Ptr(StrAnubis), spec, EmptyMap, <<FinalizerKey>>)
    \/ \E k \in SourceKeys, spec \in RuleSpecs : UserUpdate(k, spec, EmptyMap)
    \/ \E k \in SourceKeys : UserDelete(k)

RuleSpec == Init /\ [][RuleNext]_vars

\* Owners: a source whose name holds the separator of the owner label next
\* to one whose name does not, their children given a status, the sources
\* deleted, and the engine's finalizer taken off by hand, which leaves
\* children without an owner; the store may fail any call.
StrDashed == <<"a", "-", "-", "b">>

OwnerKeys == {Key(StrShop, StrWeb), Key(StrShop, StrDashed)}

OwnerRequestKeys == OwnerKeys \cup {Key(StrEngineNamespace, StrIaPrefix \o k.name) : k \in OwnerKeys}

OwnerNext ==
    \/ \E req \in OwnerRequestKeys :
          \E failAt \in 0..Min(MaxFailAt, Len(Reconcile(Ctx(0, 0), req).c.ops)) :
              ReconcilePass(req, failAt, 0)
    \/ \E k \in OwnerKeys :
          UserCreate(k, Ptr(StrAnubis), SpecDefaultNumeric, EmptyMap, <<FinalizerKey>>)
    \/ \E k \in OwnerKeys : UserDelete(k)
    \/ \E k \in OwnerKeys : AdminRemovesFinalizer(k)
    \/ \E k \in OwnerKeys, st \in StatusValues : ChildStatus(k, st)

OwnerSpec == Init /\ [][OwnerNext]_vars

\* Namesakes: two sources of the same name in two namespaces, created,
\* reconciled and deleted; the store may fail any call.
StrBlog == <<"b", "l", "o", "g">>

NamesakeKeys == {Key(StrShop, StrWeb), Key(StrBlog, StrWeb)}

NamesakeNext ==
    \/ \E req \in NamesakeKeys :
          \E failAt \in 0..Min(MaxFailAt, Len(Reconcile(Ctx(0, 0), req).c.ops)) :
              ReconcilePass(req, failAt, 0)
    \/ \E k \in NamesakeKeys :
          UserCreate(k, Ptr(StrAnubis), SpecDefaultNumeric, EmptyMap, <<FinalizerKey>>)
    \/ \E k \in NamesakeKeys : UserDelete(k)

NamesakeSpec == Init /\ [][NamesakeNext]_vars

\* Races: a pass is held up between the read of its ingress and the rest,
\* while users create, edit and delete the source and the child's status
\* changes.
RaceAnnotations == {EmptyMap, Annotations(Ptr(<<"7">>), Nil, Nil)}

RaceNext ==
    \/ \E req \in RequestKeys : PassReads(req)
    \/ PassGoesOn
    \/ \E k \in SourceKeys, annotations \in RaceAnnotations, finalizers \in InitialFinalizers :
          UserCreate(k, Ptr(StrAnubis), SpecDefaultNumeric, annotations, finalizers)
    \/ \E k \in SourceKeys, annotations \in RaceAnnotations :
          UserUpdate(k, SpecDefaultNumeric, annotations)
    \/ \E k \in SourceKeys : UserDelete(k)
    \/ \E k \in SourceKeys : OtherRemovesFinalizer(k)
    \/ \E k \in SourceKeys, st \in StatusValues : ChildStatus(k, st)

RaceSpec == Init /\ [][RaceNext]_vars

\* Self-wrapping: the engine is configured with a wrapped class that is
\* another class or its own, sources are created and edited with and without
\* a class directive, which may name the engine's class too, their children
\* are given a status, and the store may fail any call.
WrappedClasses == {StrNginx, StrAnubis}

SelfAnnotations ==
    {EmptyMap, Annotations(Nil, Nil, Ptr(StrAnubis)), Annotations(Nil, Nil, Ptr(StrTraefik))}

SelfInit ==
    /\ ingresses = EmptyMap
    /\ services = (BackendKey :> BackendWithPort)
    /\ deployments = EmptyMap
    /\ cfg \in {[DefaultConfig EXCEPT !.WrappedIngressClassName = w] : w \in WrappedClasses}
    /\ last = NoPass
    /\ exIn = Nil
    /\ exOut = Nil
    /\ inFlight = Nil
    /\ userOps = Unbudgeted

SelfNext ==
    \/ Reconciles
    \/ \E k \in SourceKeys, annotations \in SelfAnnotations :
          UserCreate(k, Ptr(StrAnubis), SpecDefaultNumeric, annotations, <<>>)
    \/ \E k \in SourceKeys, annotations \in SelfAnnotations :
          UserUpdate(k, SpecDefaultNumeric, annotations)
    \/ \E k \in SourceKeys : UserDelete(k)
    \/ \E k \in SourceKeys, st \in StatusValues : ChildStatus(k, st)

SelfSpec == SelfInit /\ [][SelfNext]_vars

\* Races of the prune: sources are created, synchronized and deleted, and
\* while a deletion pass prunes, another actor deletes one of the generated
\* resources between the pass's Get and its Delete; the store may fail any
\* call of a pass that is not raced.
PruneRaceNext ==
    \/ Reconciles
    \/ \E k \in SourceKeys, spec \in MainSpecs, finalizers \in InitialFinalizers :
          UserCreate(k, Ptr(StrAnubis), spec, EmptyMap, finalizers)
    \/ \E k \in SourceKeys : UserDelete(k)
    \/ \E k \in SourceKeys : OtherRemovesFinalizer(k)
    \/ \E k \in SourceKeys, kind \in {"Ingress", "Service", "Deployment"} : ExternalDelete(kind, k)
    \/ \E k \in SourceKeys, kind \in {"Ingress", "Service", "Deployment"} : RacedPrune(k, kind)

PruneRaceSpec == Init /\ [][PruneRaceNext]_vars

\* Backends without a service: claimed sources that carry the finalizer and
\* whose default backend, or first path of the first rule, names a resource
\* instead of a service, next to one that names a service; the store may
\* fail any call.
SpecDefaultResource == IngressSpec(Ptr(ResourceBackend), <<>>)

SpecRuleResource == IngressSpec(Nil, <<HttpRule("a", <<ResourceBackend>>)>>)

BackendSpecs == {SpecDefaultNumeric, SpecDefaultResource, SpecRuleResource}

BackendNext ==
    \/ Reconciles
    \/ \E k \in SourceKeys, spec \in BackendSpecs, finalizers \in {<<>>, <<FinalizerKey>>} :
          UserCreate(k, Ptr(StrAnubis), spec, EmptyMap, finalizers)
    \/ \E k \in SourceKeys, spec \in BackendSpecs : UserUpdate(k, spec, EmptyMap)
    \/ \E k \in SourceKeys : UserDelete(k)

BackendSpec == Init /\ [][BackendNext]_vars

\* Convergence: a bounded number of changes from outside, a store that does
\* not fail, and every request delivered again and again.
LiveInit == InitStore /\ userOps = 0

LiveNext ==
    \/ \E req \in RequestKeys : ReconcileOK(req)
    \/ \E k \in SourceKeys, class \in Classes, spec \in MainSpecs, annotations \in LiveAnnotations :
          UserCreate(k, class, spec, annotations, <<>>)
    \/ \E k \in SourceKeys, class \in Classes : UserSetClass(k, class)
    \/ \E k \in SourceKeys : UserDelete(k)
    \/ \E k \in SourceKeys, kind \in {"Ingress", "Service", "Deployment"} : ExternalDelete(kind, k)
    \/ \E k \in SourceKeys, st \in StatusValues : ChildStatus(k, st)
    \/ \E svc \in {Nil, Ptr(BackendWithPort), Ptr(BackendWithoutPort)} : BackendChange(svc)

LiveSpec ==
    LiveInit /\ [][LiveNext]_vars /\ \A req \in RequestKeys : WF_vars(ReconcileOK(req))

\* Extraction: GetIngressConfigFromIngress called once on an ingress of any
\* of the annotation maps below, or on no ingress.
DifficultyValues ==
    {Nil, Ptr(<<"7">>), Ptr(<<"a", "b", "c">>), Ptr(<<>>), Ptr(<<"+", "5">>),
     Ptr(<<"-", "1">>), Ptr(<<"0", "7">>), Ptr(<<"4", "x">>)}

ServeRobotsTxtValues ==
    {Nil, Ptr(StrFalse), Ptr(StrTrue), Ptr(<<"b", "f", "a", "l", "s", "e">>), Ptr(<<"1">>),
     Ptr(<<"y", "e", "s">>), Ptr(<<"T">>), Ptr(<<>>)}

ExtractInputs ==
    {Nil} \cup
    {Ptr([BlankIngress EXCEPT !.annotations = Annotations(d, b, class)]) :
        d \in DifficultyValues, b \in ServeRobotsTxtValues, class \in {Nil, Ptr(StrTraefik)}}

ExtractInit ==
    /\ InitStore
    /\ userOps = Unbudgeted

Extract(ing) ==
    /\ exOut = Nil
    /\ exIn' = ing
    /\ exOut' = Ptr(GetIngressConfigFromIngress(ing))
    /\ UNCHANGED <<ingresses, services, deployments, cfg, last, userOps, inFlight>>

\* The ingresses the controller's extraction is run on: these carry the
\* og-passthrough directive as well.
OGPassthroughValues ==
    {Nil, Ptr(StrFalse), Ptr(StrTrue), Ptr(<<"b", "f", "a", "l", "s", "e">>)}

ControllerExtractInputs ==
    {[BlankIngress EXCEPT !.annotations =
            IF IsNil(og) THEN Annotations(d, b, class)
            ELSE MapSet(Annotations(d, b, class), AnnotationKeyOGPassthrough, Deref(og))] :
        d \in {Nil, Ptr(<<"7">>), Ptr(<<"a", "b", "c">>)}, b \in {Nil, Ptr(StrFalse)},
        class \in {Nil, Ptr(StrTraefik)}, og \in OGPassthroughValues}

\* The extraction as Reconcile calls it, on a source ingress it has read.
ExtractForReconcile(origIng) ==
    /\ exOut = Nil
    /\ exIn' = Ptr(origIng)
    /\ exOut' = Ptr(IngressConfigOf(origIng))
    /\ UNCHANGED <<ingresses, services, deployments, cfg, last, userOps, inFlight>>

ExtractNext ==
    \/ \E ing \in ExtractInputs : Extract(ing)
    \/ \E origIng \in ControllerExtractInputs : ExtractForReconcile(origIng)

ExtractSpec == ExtractInit /\ [][ExtractNext]_vars

\* ------------------------------------------------------ reading the pass log

\* The ingress the last pass read.
ReadIng == Deref(last.read)

\* The last pass read an ingress of the engine's class that is not marked as
\* generated: a claimed source.
ClaimedRead ==
    /\ last.ran
    /\ ~IsNil(last.read)
    /\ ~IsNil(ReadIng.spec.ingressClassName)
    /\ Deref(ReadIng.spec.ingressClassName) = cfg.IngressClassName
    /\ MapGet(ReadIng.labels, ManagedLabel) # StrTrue

OpIndexes == 1..Len(last.ops)

\* The store failed a call of the last pass.
StoreFailed == \E i \in OpIndexes : last.ops[i].res = "fail"

\* The last pass created or updated something.
Synchronized == \E i \in OpIndexes : last.ops[i].verb \in {"Create", "Update"}

\* The finalizers of the request's ingress now; none when it is gone.
FinalizersNow ==
    IF last.req \in DOMAIN ingresses THEN ingresses[last.req].finalizers ELSE <<>>

Kinds == <<"Ingress", "Service", "Deployment">>

\* None of the three generated resources of the request is in the store.
TriadAbsent(req) ==
    /\ GeneratedKey(req) \notin DOMAIN ingresses
    /\ GeneratedKey(req) \notin DOMAIN services
    /\ GeneratedKey(req) \notin DOMAIN deployments

\* All three generated resources of the request are in the store.
TriadPresent(req) ==
    /\ GeneratedKey(req) \in DOMAIN ingresses
    /\ GeneratedKey(req) \in DOMAIN services
    /\ GeneratedKey(req) \in DOMAIN deployments

\* Call i of the last pass is one of the prune: a Get or a Delete of a
\* generated resource.
IsPruneOp(i) ==
    /\ last.ops[i].key = GeneratedKey(last.req)
    /\ last.ops[i].verb \in {"Get", "Delete"}

\* Before call p, the last pass looked for each of the three generated
\* resources and deleted each one it found, and no call failed.
PrunedBefore(p) ==
    /\ \A k \in 1..3 : \E i \in 1..(p - 1) :
          /\ last.ops[i].verb = "Get" /\ last.ops[i].kind = Kinds[k]
          /\ last.ops[i].key = GeneratedKey(last.req)
    /\ \A i \in 1..(p - 1) :
          /\ last.ops[i].res # "fail"
          /\ (IsPruneOp(i) /\ last.ops[i].verb = "Get" /\ last.ops[i].res = "ok") =>
                /\ i + 1 < p
                /\ last.ops[i + 1] = Op("Delete", last.ops[i].kind, last.ops[i].key, "ok")

\* ---------------------------------------------------------------- properties

\* C1: a pass that reads a claimed source without deletion marker and without
\* the engine's finalizer creates and updates nothing; it attaches the
\* finalizer and asks to be run again, or returns the error of the store when
\* the store fails.  Whatever pass creates or updates a generated resource has
\* read its source with the finalizer on it.
C1_FinalizerBeforeSync ==
    ClaimedRead =>
        /\ (~ReadIng.deletionTimestamp /\ ~Contains(ReadIng.finalizers, FinalizerKey)) =>
              /\ ~Synchronized
              /\ IF StoreFailed THEN last.err.class = "error" /\ ~last.requeue
                 ELSE /\ last.err = NoErr
                      /\ last.requeue
                      /\ Contains(FinalizersNow, FinalizerKey)
        /\ Synchronized => Contains(ReadIng.finalizers, FinalizerKey)

C1_Witness ==
    /\ ClaimedRead
    /\ ~ReadIng.deletionTimestamp
    /\ ~Contains(ReadIng.finalizers, FinalizerKey)
    /\ last.requeue
    /\ Contains(FinalizersNow, FinalizerKey)

\* C2: in a pass that reads a claimed source with the deletion marker, the
\* patch that takes the finalizer off is the last call, made after the prune
\* looked for all three generated resources and deleted those it found
\* without an error, so that none is left; the finalizers change only by that
\* patch; and when a call of the prune fails, the pass returns an error and
\* the finalizers are as they were read.
C2_FinalizerAfterPrune ==
    (ClaimedRead /\ ReadIng.deletionTimestamp) =>
        /\ \A p \in OpIndexes : last.ops[p].verb = "Patch" =>
              /\ p = Len(last.ops)
              /\ PrunedBefore(p)
              /\ TriadAbsent(last.req)
        /\ FinalizersNow # ReadIng.finalizers =>
              \E p \in OpIndexes : last.ops[p] = Op("Patch", "Ingress", last.req, "ok")
        /\ (\E i \in OpIndexes : IsPruneOp(i) /\ last.ops[i].res = "fail") =>
              /\ last.err.class = "error"
              /\ FinalizersNow = ReadIng.finalizers

C2_Witness ==
    /\ ClaimedRead
    /\ ReadIng.deletionTimestamp
    /\ \E i \in OpIndexes : last.ops[i].verb = "Delete"
    /\ Contains(ReadIng.finalizers, FinalizerKey)
    /\ ~Contains(FinalizersNow, FinalizerKey)

\* C3: a deletion pass in which the store fails no call returns no error,
\* leaves none of the three generated resources and takes the engine's
\* finalizer off the source, whichever of the three were already gone.
C3_PruneTolerant ==
    (ClaimedRead /\ ReadIng.deletionTimestamp /\ ~StoreFailed) =>
        /\ last.err = NoErr
        /\ TriadAbsent(last.req)
        /\ ~Contains(FinalizersNow, FinalizerKey)

\* The last pass read a claimed source carrying the finalizer and no deletion
\* marker, and returned no error: a pass that synchronized its source.
SyncPass ==
    /\ ClaimedRead
    /\ ~ReadIng.deletionTimestamp
    /\ Contains(ReadIng.finalizers, FinalizerKey)
    /\ last.err = NoErr

\* C4: of two passes in a row that synchronize the same source, read the same
\* both times with nothing done in between, the second creates and updates
\* nothing.
C4_SecondPassIdle ==
    [][(SyncPass /\ SyncPass' /\ last'.req = last.req /\ last'.read = last.read)
          => ~Synchronized']_vars

\* ------------------------------------------------------ reading the store

\* The name and place of the resources generated for the source k.
ChildKey(k) == Key(StrEngineNamespace, <<"i", "a", "-">> \o k.name)

\* k is an ingress of the engine's class that is not marked as generated.
Claimed(k) ==
    /\ k \in DOMAIN ingresses
    /\ ingresses[k].spec.ingressClassName = Ptr(StrAnubis)
    /\ MapGet(ingresses[k].labels, ManagedLabel) # StrTrue

\* The service named by the backend b of an ingress of namespace ns can be
\* resolved to a port: b gives the number, or the service is in the store
\* and declares a port of the name b gives.
Resolvable(ns, b) ==
    IF b.port.name = <<>> THEN TRUE
    ELSE IF Key(ns, b.name) \notin DOMAIN services THEN FALSE
    ELSE \E i \in 1..Len(services[Key(ns, b.name)].spec.ports) :
            /\ services[Key(ns, b.name)].spec.ports[i].name = b.port.name
            /\ services[Key(ns, b.name)].spec.ports[i].port # 0

\* The source k selects a service backend, and it can be resolved.
BackendResolvable(k) ==
    /\ SelectBackend(ingresses[k]).err = NoErr
    /\ ~IsNil(SelectBackend(ingresses[k]).svcBackend)
    /\ Resolvable(k.ns, Deref(SelectBackend(ingresses[k]).svcBackend))

\* The source k is one the engine is to wrap.
Eligible(k) ==
    /\ Claimed(k)
    /\ ~ingresses[k].deletionTimestamp
    /\ BackendResolvable(k)

\* The directives of the source k all parse.
DirectivesParse(k) == IsNil(IngressConfigOf(ingresses[k]).err)

\* The source k carries the finalizer and its three generated resources exist.
Converged(k) ==
    /\ Contains(ingresses[k].finalizers, FinalizerKey)
    /\ ChildKey(k) \in DOMAIN ingresses
    /\ ChildKey(k) \in DOMAIN services
    /\ ChildKey(k) \in DOMAIN deployments

\* C5 as stated: with every request delivered again and again and a store
\* that does not fail, from some point on every source of the engine's class
\* that is not being deleted and has a resolvable backend carries the finalizer
\* and has its deployment, service and child ingress.
C5_EligibleConverges ==
    <>[](\A k \in SourceKeys : Eligible(k) => Converged(k))

\* C5: with every request delivered again and again and a store that does not
\* fail, from some point on every source of the engine's class that is not
\* being deleted, has a resolvable backend and has directives that parse
\* carries the finalizer and has its deployment, service and child ingress.
C5_ParsedEligibleConverges ==
    <>[](\A k \in SourceKeys : (Eligible(k) /\ DirectivesParse(k)) => Converged(k))

C5_Witness ==
    \E k \in SourceKeys : Eligible(k) /\ DirectivesParse(k) /\ Converged(k) /\ last.ran

\* The reference to port "http" of the generated service of the source name.
WrapperRef(name) ==
    Ptr([name |-> <<"i", "a", "-">> \o name,
         port |-> [name |-> <<"h", "t", "t", "p">>, number |-> 0]])

\* The backend b pointed to the generated service of the source name.
Wrapped(b, name) == [service |-> WrapperRef(name), resource |-> b.resource]

\* The rule r with the backend of every path pointed to the generated service
\* when r has an HTTP section, r itself when it has none.
WrappedRule(r, name) ==
    IF r.http = Nil THEN r
    ELSE [host |-> r.host,
          http |-> Ptr([paths |->
              [j \in 1..Len(Deref(r.http).paths) |->
                  [path |-> Deref(r.http).paths[j].path,
                   backend |-> Wrapped(Deref(r.http).paths[j].backend, name)]]])]

\* The default backend and the rules of the spec sp, pointed to the generated
\* service of the source name, under the class name class.
WrappedSpec(sp, name, class) ==
    [ingressClassName |-> class,
     defaultBackend |->
         IF sp.defaultBackend = Nil THEN Nil
         ELSE Ptr(Wrapped(Deref(sp.defaultBackend), name)),
     rules |-> [i \in 1..Len(sp.rules) |-> WrappedRule(sp.rules[i], name)]]

\* The class name of the child of the source ing: the class its ingress-class
\* directive gives, the wrapped class of the engine without the directive.
WrappedClass(ing) ==
    IF AnnotationKeyIngressClass \in DOMAIN ing.annotations
    THEN Ptr(ing.annotations[AnnotationKeyIngressClass])
    ELSE Ptr(StrNginx)

\* The generated service of the request exposes a port named "http".
ServiceExposesHttp(req) ==
    /\ ChildKey(req) \in DOMAIN services
    /\ \E i \in 1..Len(services[ChildKey(req)].spec.ports) :
          services[ChildKey(req)].spec.ports[i].name = <<"h", "t", "t", "p">>

\* C6 as stated: after a pass that synchronized a source, the spec of the
\* child ingress is the source's but for the default backend and the backend
\* of every path of every rule with an HTTP section, which refer to the
\* generated service by the port name "http"; and the generated service has a
\* port named "http".
C6_ChildSpecRewritten ==
    SyncPass =>
        /\ ChildKey(last.req) \in DOMAIN ingresses
        /\ ingresses[ChildKey(last.req)].spec =
              WrappedSpec(ReadIng.spec, last.req.name, ReadIng.spec.ingressClassName)
        /\ ServiceExposesHttp(last.req)

\* C6: after a pass that synchronized a source, the spec of the child ingress
\* is the source's but for the class name, which is the wrapped class, and
\* for the default backend and the backend of every path of every rule with
\* an HTTP section, which refer to the generated service by the port name
\* "http"; and the generated service has a port named "http".
C6_ChildSpecRewrittenAndReclassed ==
    SyncPass =>
        /\ ChildKey(last.req) \in DOMAIN ingresses
        /\ ingresses[ChildKey(last.req)].spec =
              WrappedSpec(ReadIng.spec, last.req.name, WrappedClass(ReadIng))
        /\ ServiceExposesHttp(last.req)

C6_Witness ==
    /\ SyncPass
    /\ ReadIng.spec.defaultBackend # Nil
    /\ Len(ReadIng.spec.rules) = 2
    /\ ingresses[ChildKey(last.req)].spec =
          WrappedSpec(ReadIng.spec, last.req.name, Ptr(StrTraefik))

\* ing is a generated child of the source k: marked as managed and labelled
\* with k as its owner.
ChildOf(ing, k) ==
    /\ MapGet(ing.labels, ManagedLabel) = StrTrue
    /\ MapGet(ing.labels, OwningLabel) = k.ns \o <<"-", "-">> \o k.name

\* The child is one the engine mirrors whatever its class, or one whose class
\* is not the engine's.
Mirrorable(ing, anyClass) == anyClass \/ ing.spec.ingressClassName # Ptr(StrAnubis)

\* The last pass read a child of the source k and the store failed no call.
ChildPass(k, anyClass) ==
    /\ last.ran
    /\ ~IsNil(last.read)
    /\ ChildOf(ReadIng, k)
    /\ Mirrorable(ReadIng, anyClass)
    /\ ~StoreFailed

\* A pass over a child of an existing source k leaves k as it was but for its
\* status, which is the child's.
MirrorStep(k, anyClass) ==
    (ChildPass(k, anyClass)' /\ k \in DOMAIN ingresses) =>
        /\ k \in DOMAIN ingresses'
        /\ ingresses'[k] = [ingresses[k] EXCEPT !.status = ReadIng'.status]

\* From some point on every source has the status of its child.
Mirrored(anyClass) ==
    <>[](\A k \in SourceKeys :
            (/\ k \in DOMAIN ingresses
             /\ ChildKey(k) \in DOMAIN ingresses
             /\ ChildOf(ingresses[ChildKey(k)], k)
             /\ Mirrorable(ingresses[ChildKey(k)], anyClass))
            => ingresses[k].status = ingresses[ChildKey(k)].status)

\* C7 as stated: a pass without store failure over a generated child with a
\* well-formed owner label, the owner existing, makes the owner's status the
\* child's and changes nothing else of the owner; and with every request
\* delivered again and again and a store that does not fail, the owner ends
\* with the status of its child.
C7_StatusMirroredAnyClass ==
    /\ [][\A k \in SourceKeys : MirrorStep(k, TRUE)]_vars
    /\ Mirrored(TRUE)

\* C7: a pass without store failure over a generated child whose class is not
\* the engine's and whose owner label is well formed, the owner existing,
\* makes the owner's status the child's and changes nothing else of the owner;
\* and with every request delivered again and again and a store that does not
\* fail, the owner of such a child ends with the child's status.
C7_StatusMirrored ==
    /\ [][\A k \in SourceKeys : MirrorStep(k, FALSE)]_vars
    /\ Mirrored(FALSE)

C7_Witness ==
    \E k \in SourceKeys :
        /\ ChildPass(k, FALSE)
        /\ \E i \in OpIndexes : last.ops[i] = Op("StatusPatch", "Ingress", k, "ok")
        /\ ReadIng.status # NoStatus
        /\ ingresses[k].status = ReadIng.status

\* The last pass read a claimed source that carries the finalizer and no
\* deletion marker and whose selected backend names its port.
NamedPortPass ==
    /\ ClaimedRead
    /\ ~ReadIng.deletionTimestamp
    /\ Contains(ReadIng.finalizers, FinalizerKey)
    /\ SelectBackend(ReadIng).err = NoErr
    /\ ~IsNil(SelectBackend(ReadIng).svcBackend)
    /\ Deref(SelectBackend(ReadIng).svcBackend).port.name # <<>>

\* The service the last pass was to fetch.
NamedService == Key(last.req.ns, Deref(SelectBackend(ReadIng).svcBackend).name)

\* The store failed the fetch of that service.
FetchFailed == \E i \in OpIndexes : last.ops[i] = Op("Get", "Service", NamedService, "fail")

\* C8: a pass over a claimed source with the finalizer whose selected backend
\* names its port, the service being absent, its fetch failing, or the service
\* declaring no port of that name, returns an error and creates, updates,
\* deletes and patches nothing.
C8_NamedPortUnresolved ==
    (/\ NamedPortPass
     /\ IF FetchFailed THEN TRUE
        ELSE ~Resolvable(last.req.ns, Deref(SelectBackend(ReadIng).svcBackend)))
    => /\ last.err.class = "error"
       /\ \A i \in OpIndexes : last.ops[i].verb = "Get"

C8_Witness ==
    /\ NamedPortPass
    /\ ~FetchFailed
    /\ NamedService \in DOMAIN services
    /\ ~Resolvable(last.req.ns, Deref(SelectBackend(ReadIng).svcBackend))
    /\ last.err.class = "error"

\* C9: with every request delivered again and again and a store that does not
\* fail, from some point on no source whose class is not the engine's has a
\* generated deployment, service or child ingress.
C9_ClassChangePrunes ==
    <>[](\A k \in SourceKeys :
            (k \in DOMAIN ingresses /\ ingresses[k].spec.ingressClassName # Ptr(StrAnubis))
            => /\ ChildKey(k) \notin DOMAIN ingresses
               /\ ChildKey(k) \notin DOMAIN services
               /\ ChildKey(k) \notin DOMAIN deployments)

\* An integer as strconv.Atoi reads one: digits, after at most one sign.
IntLiteral(v) ==
    /\ Len(v) > 0
    /\ \A i \in 2..Len(v) : IsDigit(v[i])
    /\ IF v[1] \in {"+", "-"} THEN Len(v) > 1 ELSE IsDigit(v[1])

\* The values strconv.ParseBool accepts.
BoolLiteral(v) ==
    v \in {<<"1">>, <<"t">>, <<"T">>, <<"T", "R", "U", "E">>, <<"t", "r", "u", "e">>,
           <<"T", "r", "u", "e">>, <<"0">>, <<"f">>, <<"F">>, <<"F", "A", "L", "S", "E">>,
           <<"f", "a", "l", "s", "e">>, <<"F", "a", "l", "s", "e">>}

\* The annotations a carry a difficulty that is no integer or a
\* serve-robots-txt or og-passthrough that is no boolean.
Unparsable(a) ==
    \/ /\ AnnotationKeyDifficulty \in DOMAIN a
       /\ ~IntLiteral(a[AnnotationKeyDifficulty])
    \/ /\ AnnotationKeyServeRobotsTxt \in DOMAIN a
       /\ ~BoolLiteral(a[AnnotationKeyServeRobotsTxt])
    \/ /\ AnnotationKeyOGPassthrough \in DOMAIN a
       /\ ~BoolLiteral(a[AnnotationKeyOGPassthrough])

\* C10: for an ingress with a difficulty that is no integer or a
\* serve-robots-txt that is no boolean, whatever its other annotations,
\* GetIngressConfigFromIngress returns an error and a nil configuration.
C10_UnparsableDirectiveFails ==
    (exOut # Nil /\ exIn # Nil /\ Unparsable(Deref(exIn).annotations)) =>
        /\ Deref(exOut).err # Nil
        /\ Deref(exOut).cfg = Nil

C10_Witness ==
    /\ exOut # Nil
    /\ exIn # Nil
    /\ AnnotationKeyDifficulty \in DOMAIN Deref(exIn).annotations
    /\ Deref(exIn).annotations[AnnotationKeyDifficulty] = <<"a", "b", "c">>
    /\ AnnotationKeyServeRobotsTxt \in DOMAIN Deref(exIn).annotations
    /\ AnnotationKeyIngressClass \in DOMAIN Deref(exIn).annotations
    /\ Deref(exOut).err # Nil
    /\ Deref(exOut).cfg = Nil

\* The extraction has run on an input whose present directives all carry a
\* value of their type (a nil ingress carries none).
ValidExtraction ==
    /\ exOut # Nil
    /\ IF exIn = Nil THEN TRUE ELSE ~Unparsable(Deref(exIn).annotations)

\* The ingress-class directive of the extraction's input, nil when absent.
ClassDirective ==
    IF exIn = Nil THEN Nil
    ELSE IF AnnotationKeyIngressClass \in DOMAIN Deref(exIn).annotations
    THEN Ptr(Deref(exIn).annotations[AnnotationKeyIngressClass])
    ELSE Nil

\* C11 as stated: for every annotation set whose present directives carry
\* valid values, GetIngressConfigFromIngress returns no error and every
\* field of the configuration (difficulty, serve-robots-txt, ingress class)
\* is non-nil.
C11_ValidDirectivesAllFieldsSet ==
    ValidExtraction =>
        /\ Deref(exOut).err = Nil
        /\ Deref(exOut).cfg # Nil
        /\ \A f \in DOMAIN Deref(Deref(exOut).cfg) : Deref(Deref(exOut).cfg)[f] # Nil

\* C11: for every annotation set whose present directives carry valid
\* values, GetIngressConfigFromIngress returns no error, the difficulty and
\* the serve-robots-txt flag of the configuration are non-nil, and its
\* ingress class is non-nil exactly when the ingress-class directive is
\* present (applyDefaults has no default for it).
C11_ValidDirectivesDefaultedFieldsSet ==
    ValidExtraction =>
        /\ Deref(exOut).err = Nil
        /\ Deref(exOut).cfg # Nil
        /\ Deref(Deref(exOut).cfg).Difficulty # Nil
        /\ Deref(Deref(exOut).cfg).ServeRobotsTxt # Nil
        /\ (Deref(Deref(exOut).cfg).IngressClass # Nil) = (ClassDirective # Nil)

C11_Witness ==
    /\ ValidExtraction
    /\ exIn # Nil
    /\ AnnotationKeyDifficulty \in DOMAIN Deref(exIn).annotations
    /\ AnnotationKeyServeRobotsTxt \notin DOMAIN Deref(exIn).annotations
    /\ ClassDirective = Nil
    /\ Deref(exOut).err = Nil
    /\ Deref(Deref(exOut).cfg).ServeRobotsTxt = Ptr(TRUE)
    /\ Deref(Deref(exOut).cfg).IngressClass = Nil

\* The annotations of the extraction's input, none for a nil ingress.
ExtractedAnnotations == IF exIn = Nil THEN EmptyMap ELSE Deref(exIn).annotations

\* The integer a difficulty literal of the inputs denotes.
IntValue(v) ==
    CASE v = <<"7">> -> 7
      [] v = <<"+", "5">> -> 5
      [] v = <<"-", "1">> -> 0 - 1
      [] v = <<"0", "7">> -> 7

\* The boolean a literal of strconv.ParseBool denotes.
BoolValue(v) ==
    v \in {<<"1">>, <<"t">>, <<"T">>, <<"T", "R", "U", "E">>, <<"t", "r", "u", "e">>,
           <<"T", "r", "u", "e">>}

\* The value of field f the annotations a ask for: the directive's parsed
\* value when the directive is present, the default otherwise (difficulty 4,
\* serve-robots-txt true, og-passthrough true, no ingress class).
ExpectedField(a, f) ==
    CASE f = "Difficulty" ->
            IF AnnotationKeyDifficulty \in DOMAIN a
            THEN Ptr(IntValue(a[AnnotationKeyDifficulty])) ELSE Ptr(4)
      [] f = "ServeRobotsTxt" ->
            IF AnnotationKeyServeRobotsTxt \in DOMAIN a
            THEN Ptr(BoolValue(a[AnnotationKeyServeRobotsTxt])) ELSE Ptr(TRUE)
      [] f = "OGPassthrough" ->
            IF AnnotationKeyOGPassthrough \in DOMAIN a
            THEN Ptr(BoolValue(a[AnnotationKeyOGPassthrough])) ELSE Ptr(TRUE)
      [] f = "IngressClass" ->
            IF AnnotationKeyIngressClass \in DOMAIN a
            THEN Ptr(a[AnnotationKeyIngressClass]) ELSE Nil
      [] f = "MetricsPort" -> Ptr(9090)

EngineValue(k, ing) ==
    CASE k = "BIND" -> <<":", "8", "0", "8", "0">>
      [] k = "DIFFICULTY" ->
            IF AnnotationKeyDifficulty \in DOMAIN ing.annotations
            THEN ing.annotations[AnnotationKeyDifficulty] ELSE <<"4">>
      [] k = "METRICS_BIND" -> <<":", "9", "0", "9", "0">>
      [] k = "SERVE_ROBOTS_TXT" ->
            IF AnnotationKeyServeRobotsTxt \in DOMAIN ing.annotations
            THEN ing.annotations[AnnotationKeyServeRobotsTxt] ELSE StrTrue
      [] k = "OG_PASSTHROUGH" ->
            IF AnnotationKeyOGPassthrough \in DOMAIN ing.annotations
            THEN ing.annotations[AnnotationKeyOGPassthrough] ELSE StrTrue
      [] k = "TARGET" ->
            StrTargetScheme \o StrApp \o <<".">> \o StrShop \o StrTargetDomain
            \o (IF ing.spec.defaultBackend # Nil THEN <<"8", "0", "8", "0">>
                ELSE <<"8", "4", "4", "3">>)

\* The container environment of the deployment generated for the request of
\* the last pass.
GeneratedEnv == deployments[ChildKey(last.req)].spec.template.env

\* C13: after a successful synchronization pass, under every static
\* environment map, the generated deployment's container environment holds
\* every static key that is not engine-owned with its static value, holds
\* BIND, DIFFICULTY, METRICS_BIND, SERVE_ROBOTS_TXT, TARGET and
\* OG_PASSTHROUGH with the engine-computed values even when the static map
\* defines them, and holds each key exactly once.
C13_EngineKeysOverrideStatic ==
    SyncPass =>
        /\ ChildKey(last.req) \in DOMAIN deployments
        /\ \A k \in DOMAIN cfg.EnvironmentVariables \ EngineOwnedKeys :
              \E i \in DOMAIN GeneratedEnv :
                  GeneratedEnv[i] = [name |-> k, value |-> cfg.EnvironmentVariables[k]]
        /\ \A k \in EngineOwnedKeys :
              \E i \in DOMAIN GeneratedEnv :
                  GeneratedEnv[i] = [name |-> k, value |-> EngineValue(k, ReadIng)]
        /\ \A i, j \in DOMAIN GeneratedEnv :
              GeneratedEnv[i].name = GeneratedEnv[j].name => i = j
        /\ {GeneratedEnv[i].name : i \in DOMAIN GeneratedEnv} =
              DOMAIN cfg.EnvironmentVariables \cup EngineOwnedKeys

C13_Witness ==
    /\ SyncPass
    /\ EngineOwnedKeys \subseteq DOMAIN cfg.EnvironmentVariables
    /\ cfg.EnvironmentVariables["DIFFICULTY"] = <<"x">>
    /\ AnnotationKeyDifficulty \in DOMAIN ReadIng.annotations
    /\ Len(GeneratedEnv) = 7
    /\ \E i \in DOMAIN GeneratedEnv : GeneratedEnv[i] = [name |-> "DIFFICULTY", value |-> <<"7">>]
    /\ \E i \in DOMAIN GeneratedEnv : GeneratedEnv[i] = [name |-> "COOKIE_DOMAIN", value |-> <<"x">>]

\* The last pass read an ingress of the engine's class.
EngineClassRead ==
    /\ last.ran
    /\ ~IsNil(last.read)
    /\ ReadIng.spec.ingressClassName = Ptr(cfg.IngressClassName)

\* The last pass called the store for nothing but reads.
ReadOnlyPass == \A i \in OpIndexes : last.ops[i].verb = "Get"

\* C14: a pass that reads an ingress of the engine's class carrying the
\* managed marker "true" ends with a terminal error, asks for no retry, and
\* has called the store for nothing but the read of that ingress: no patch of
\* finalizers, no create, update or delete, no status patch.
C14_SelfOwnedRejected ==
    (EngineClassRead /\ MapGet(ReadIng.labels, ManagedLabel) = StrTrue) =>
        /\ last.err.class = "terminal"
        /\ ~last.requeue
        /\ last.ops = <<Op("Get", "Ingress", last.req, "ok")>>
        /\ ReadOnlyPass

C14_Witness ==
    /\ EngineClassRead
    /\ MapGet(ReadIng.labels, ManagedLabel) = StrTrue
    /\ last.req = ChildKey(Key(StrShop, StrWeb))
    /\ last.err = TerminalError("self-owned")
    /\ Len(last.ops) = 1

\* The last pass read a claimed source that carries the finalizer and is not
\* being deleted: the pass went on to select a backend.
FinalizedRead ==
    /\ ClaimedRead
    /\ ~ReadIng.deletionTimestamp
    /\ Contains(ReadIng.finalizers, FinalizerKey)

\* C15: a pass that reads a claimed, finalized source with neither a default
\* backend nor a rule ends with a terminal error, asks for no retry, and has
\* created and updated nothing.
C15_NoBackendRejected ==
    (FinalizedRead /\ ReadIng.spec.defaultBackend = Nil /\ ReadIng.spec.rules = <<>>) =>
        /\ last.err.class = "terminal"
        /\ ~last.requeue
        /\ ~Synchronized

C15_Witness ==
    /\ FinalizedRead
    /\ ReadIng.spec.defaultBackend = Nil
    /\ ReadIng.spec.rules = <<>>
    /\ last.err = TerminalError("no-rules")
    /\ ReadOnlyPass

\* The rule r has no HTTP section, or an HTTP section without paths.
Pathless(r) == IF IsNil(r.http) THEN TRUE ELSE Len(Deref(r.http).paths) = 0

\* The last pass ended with a terminal error, asked for no retry, and created
\* and updated nothing.
Rejected ==
    /\ last.err.class = "terminal"
    /\ ~last.requeue
    /\ ~Synchronized

ForeignRead ==
    /\ last.ran
    /\ ~IsNil(last.read)
    /\ ReadIng.spec.ingressClassName # Ptr(cfg.IngressClassName)
    /\ MapGet(ReadIng.labels, ManagedLabel) # StrTrue

GeneratedRead ==
    /\ last.ran
    /\ ~IsNil(last.read)
    /\ ReadIng.spec.ingressClassName # Ptr(cfg.IngressClassName)
    /\ MapGet(ReadIng.labels, ManagedLabel) = StrTrue
    /\ OwningLabel \in DOMAIN ReadIng.labels

\* The owner label of the ingress read splits on "--" into two parts.
OwnerLabelSplits == Len(Split(ReadIng.labels[OwningLabel], StrDashDash)) = 2

\* The last pass patched no status.
NoStatusWritten == \A i \in OpIndexes : last.ops[i].verb # "StatusPatch"

\* C18: a pass that reads a generated ingress whose owner label does not
\* split on "--" into exactly two parts ends with a terminal error, and
\* writes no status.
C18_MalformedOwnerTerminal ==
    (GeneratedRead /\ ~OwnerLabelSplits) =>
        /\ last.err.class = "terminal"
        /\ NoStatusWritten

\* The last pass asked the store for the ingress of its request with the
\* result res.
RequestGet(res) ==
    /\ last.ran
    /\ Len(last.ops) > 0
    /\ last.ops[1] = Op("Get", "Ingress", last.req, res)

\* The last pass read a generated ingress with a well-formed owner label and
\* asked the store for the owner, with the result res.
OwnerGet(res) ==
    /\ GeneratedRead
    /\ OwnerLabelSplits
    /\ Len(last.ops) > 1
    /\ last.ops[2].verb = "Get"
    /\ last.ops[2].kind = "Ingress"
    /\ last.ops[2].key.ns \o StrDashDash \o last.ops[2].key.name = ReadIng.labels[OwningLabel]
    /\ last.ops[2].res = res

\* C19: a pass whose request names an ingress that is not in the store
\* returns success after that one read; a pass over a generated ingress
\* whose owner is not in the store returns success after the two reads; and
\* a read that fails otherwise ends the pass with an error, nothing written.
C19_NotFoundIgnored ==
    /\ RequestGet("notfound") => (last.err = NoErr /\ ~last.requeue /\ Len(last.ops) = 1)
    /\ OwnerGet("notfound") => (last.err = NoErr /\ ~last.requeue /\ Len(last.ops) = 2)
    /\ RequestGet("fail") => (last.err.class = "error" /\ Len(last.ops) = 1)
    /\ OwnerGet("fail") => (last.err.class = "error" /\ Len(last.ops) = 2)

C19_Witness ==
    /\ OwnerGet("notfound")
    /\ last.req = ChildKey(Key(StrShop, StrWeb))
    /\ Key(StrShop, StrWeb) \notin DOMAIN ingresses
    /\ last.req \in DOMAIN ingresses
    /\ ingresses[last.req].status # NoStatus
    /\ last.err = NoErr
    /\ ReadOnlyPass

\* The class of the child ingress generated for the request of the last pass.
ChildClass == ingresses[ChildKey(last.req)].spec.ingressClassName

\* C20: after a successful synchronization pass the child ingress exists and
\* its class is the value of the source's ingress-class directive when the
\* source carries one, and the configured wrapped class when it does not;
\* the class of the source's own spec, the engine's, is not what the child
\* gets.
C20_ChildClassFromDirective ==
    SyncPass =>
        /\ ChildKey(last.req) \in DOMAIN ingresses
        /\ ChildClass =
              IF AnnotationKeyIngressClass \in DOMAIN ReadIng.annotations
              THEN Ptr(ReadIng.annotations[AnnotationKeyIngressClass])
              ELSE Ptr(cfg.WrappedIngressClassName)

C20_Witness ==
    /\ SyncPass
    /\ ReadIng.spec.ingressClassName = Ptr(StrAnubis)
    /\ AnnotationKeyIngressClass \in DOMAIN ReadIng.annotations
    /\ ChildClass = Ptr(StrTraefik)
    /\ \E i \in OpIndexes : last.ops[i] = Op("Update", "Ingress", ChildKey(last.req), "ok")

\* The one backend of a spec the target is resolved from: the default
\* backend's service, or that of the first path of the first rule.
FirstBackend(sp) ==
    IF sp.defaultBackend # Nil THEN Deref(Deref(sp.defaultBackend).service)
    ELSE Deref(Deref(sp.rules[1].http).paths[1].backend.service)

\* The address of the backend b of a source of namespace ns: its port by
\* number, or the number the backend service (port web = 8443) gives its name.
AddressOf(ns, b) ==
    StrTargetScheme \o b.name \o <<".">> \o ns \o StrTargetDomain
    \o (IF b.port.name = <<>> THEN Itoa(b.port.number) ELSE <<"8", "4", "4", "3">>)

\* The number of backends a spec names.
RECURSIVE PathsOf(_, _)
PathsOf(rules, i) ==
    IF i > Len(rules) THEN 0
    ELSE (IF IsNil(rules[i].http) THEN 0 ELSE Len(Deref(rules[i].http).paths))
         + PathsOf(rules, i + 1)

BackendsOf(sp) == (IF sp.defaultBackend # Nil THEN 1 ELSE 0) + PathsOf(sp.rules, 1)

\* C21: after a successful synchronization pass the TARGET of the generated
\* deployment is the address of one backend of the source, the default
\* backend when there is one and the first path of the first rule when
\* there is none: it is a function of that backend alone, so sources that
\* differ in their other backends have the same TARGET.
C21_TargetFromFirstBackend ==
    SyncPass =>
        /\ ChildKey(last.req) \in DOMAIN deployments
        /\ \E i \in DOMAIN GeneratedEnv :
              GeneratedEnv[i] = [name |-> "TARGET",
                                 value |-> AddressOf(last.req.ns, FirstBackend(ReadIng.spec))]

C21_Witness ==
    /\ SyncPass
    /\ ReadIng.spec.defaultBackend = Nil
    /\ BackendsOf(ReadIng.spec) = 3
    /\ \E i \in DOMAIN GeneratedEnv :
          GeneratedEnv[i] = [name |-> "TARGET", value |-> AddressOf(StrShop, [name |-> StrApp,
                                                          port |-> [name |-> <<>>, number |-> 8080]])]
    /\ \E i \in OpIndexes : last.ops[i] = Op("Update", "Deployment", ChildKey(last.req), "ok")

\* The last pass read a claimed, finalized source whose spec has a backend to
\* resolve: a default backend, or a first rule with a path.
BackendRead ==
    /\ FinalizedRead
    /\ IF ReadIng.spec.defaultBackend # Nil THEN TRUE
       ELSE IF Len(ReadIng.spec.rules) = 0 THEN FALSE
       ELSE ~Pathless(ReadIng.spec.rules[1])

\* The last pass asked the store for the service of key k.
ServiceRead(k) ==
    \E i \in OpIndexes : last.ops[i].verb = "Get" /\ last.ops[i].kind = "Service"
                         /\ last.ops[i].key = k

\* C22: a pass over a source whose selected backend gives its port by number
\* and not by name does not read the backend service, fails at no step of
\* the resolution, and when it succeeds the TARGET of the deployment is
\* http://<service>.<source-namespace>.svc.cluster.local:<number>, whether
\* or not the backend service exists.
C22_NumericPortNoRead ==
    (BackendRead /\ FirstBackend(ReadIng.spec).port.name = <<>>) =>
        /\ ~ServiceRead(Key(last.req.ns, FirstBackend(ReadIng.spec).name))
        /\ last.err.at \notin {"target", "target-lookup", "target-port"}
        /\ last.err = NoErr =>
              \E i \in DOMAIN GeneratedEnv :
                  GeneratedEnv[i] =
                      [name |-> "TARGET",
                       value |-> StrTargetScheme \o FirstBackend(ReadIng.spec).name \o <<".">>
                                 \o last.req.ns \o StrTargetDomain \o <<"8", "0", "8", "0">>]

C22_Witness ==
    /\ BackendRead
    /\ FirstBackend(ReadIng.spec).port = [name |-> <<>>, number |-> 8080]
    /\ BackendKey \notin DOMAIN services
    /\ last.err = NoErr
    /\ Synchronized
    /\ ~ServiceRead(BackendKey)

\* The object obj carries the owner label of the source k.
OwnedBy(obj, k) == MapGet(obj.labels, OwningLabel) = k.ns \o <<"-", "-">> \o k.name

\* The step is a pass for the source s that leaves every generated ingress
\* and deployment labelled as owned by the source t as it was.
LeavesTriadOf(s, t) ==
    (last'.ran /\ last'.req = s) =>
        /\ \A g \in DOMAIN ingresses :
              OwnedBy(ingresses[g], t) =>
                  (g \in DOMAIN ingresses' /\ ingresses'[g] = ingresses[g])
        /\ \A g \in DOMAIN deployments :
              OwnedBy(deployments[g], t) =>
                  (g \in DOMAIN deployments' /\ deployments'[g] = deployments[g])

\* C23: of two different sources, also two of the same name in two
\* namespaces, a pass for one (synchronizing it or pruning for its deletion)
\* never updates or deletes a generated resource whose owner label names
\* the other.
C23_TriadsDisjoint ==
    [][\A s, t \in NamesakeKeys : s # t => LeavesTriadOf(s, t)]_vars

\* The source k is being deleted and the engine's finalizer holds it.
HeldByFinalizer(k) ==
    /\ k \in DOMAIN ingresses
    /\ ingresses[k].deletionTimestamp
    /\ Contains(ingresses[k].finalizers, FinalizerKey)

\* C24: with every request delivered again and again and a store that does
\* not fail, an ingress that has its deletion marker set and carries the
\* engine's finalizer is eventually rid of the finalizer (or gone), whatever
\* its class has become since the finalizer was attached.
C24_FinalizerReleased ==
    \A k \in SourceKeys : HeldByFinalizer(k) ~> ~HeldByFinalizer(k)

\* The pass that read the ingress o goes on to patch its finalizers: o is a
\* claimed source without the finalizer, or one in deletion that carries it.
PatchesFinalizers(o) ==
    /\ o.spec.ingressClassName = Ptr(StrAnubis)
    /\ MapGet(o.labels, ManagedLabel) # StrTrue
    /\ o.deletionTimestamp = Contains(o.finalizers, FinalizerKey)

\* The step is the rest of a pass whose source was changed by another writer
\* after the pass had read it.
StaleWrite ==
    /\ inFlight # Nil
    /\ inFlight' = Nil
    /\ Deref(inFlight).req \in DOMAIN ingresses
    /\ ingresses[Deref(inFlight).req] # Deref(inFlight).origIng
    /\ PatchesFinalizers(Deref(inFlight).origIng)

\* C25: when the source was modified by another writer between the read of
\* a pass and its write of the finalizers, the write is rejected: the pass
\* ends with an error and the source is left as the other writer made it.
C25_StaleWriteRejected ==
    [][StaleWrite =>
          /\ last'.err.class = "error"
          /\ Deref(inFlight).req \in DOMAIN ingresses'
          /\ ingresses'[Deref(inFlight).req] = ingresses[Deref(inFlight).req]]_vars

\* C26: a step that creates a deployment gives it the selector of its
\* labels, and no step changes the selector of a deployment that exists,
\* whichever source the pass is for and whatever that source has become.
C26_SelectorSetAtCreation ==
    [][\A g \in DOMAIN deployments' :
          IF g \in DOMAIN deployments
          THEN deployments'[g].spec.selector = deployments[g].spec.selector
          ELSE deployments'[g].spec.selector = Ptr(deployments'[g].labels)]_vars

C26_Witness ==
    /\ SyncPass
    /\ \E i \in OpIndexes : last.ops[i] = Op("Update", "Deployment", ChildKey(last.req), "ok")
    /\ OwnedBy(deployments[ChildKey(last.req)], Key(StrBlog, StrWeb))
    /\ deployments[ChildKey(last.req)].spec.selector # Ptr(deployments[ChildKey(last.req)].labels)
    /\ OwnedBy([labels |-> Deref(deployments[ChildKey(last.req)].spec.selector)],
               Key(StrShop, StrWeb))

\* The labels lb hold the managed marker, the owner label of the source k
\* and the two identity labels.
LabelledFor(lb, k) ==
    /\ MapGet(lb, ManagedLabel) = StrTrue
    /\ MapGet(lb, OwningLabel) = k.ns \o <<"-", "-">> \o k.name
    /\ MapGet(lb, "app.kubernetes.io/instance") = <<"a", "n", "u", "b", "i", "s">>
    /\ MapGet(lb, "app.kubernetes.io/name") = <<"a", "n", "u", "b", "i", "s">>

\* C27: after a successful synchronization pass for a source, the generated
\* deployment, service and child ingress each carry, in their own metadata,
\* the managed marker "true", the owner label <ns>--<name> and the identity
\* labels.
C27_TriadLabelled ==
    SyncPass =>
        /\ TriadPresent(last.req)
        /\ LabelledFor(deployments[ChildKey(last.req)].labels, last.req)
        /\ LabelledFor(services[ChildKey(last.req)].labels, last.req)
        /\ LabelledFor(ingresses[ChildKey(last.req)].labels, last.req)

\* C28: a pass over a claimed, finalized source whose directives do not
\* parse and whose backend cannot be resolved ends with the error of the
\* extraction, and has not read the backend service.
C28_ExtractionBeforeTarget ==
    (/\ BackendRead
     /\ Unparsable(ReadIng.annotations)
     /\ ~Resolvable(last.req.ns, FirstBackend(ReadIng.spec))) =>
        /\ last.err = Err("config")
        /\ ~ServiceRead(Key(last.req.ns, FirstBackend(ReadIng.spec).name))

\* The place of a kind in the order of synchronization.
Rank(kind) == CASE kind = "Deployment" -> 1 [] kind = "Service" -> 2 [] kind = "Ingress" -> 3

\* The calls of the last pass for the generated resources come deployment
\* first, service second, child ingress third.
TriadInOrder ==
    \A i, j \in OpIndexes :
        (/\ i < j
         /\ last.ops[i].key = ChildKey(last.req)
         /\ last.ops[j].key = ChildKey(last.req)) => Rank(last.ops[i].kind) <= Rank(last.ops[j].kind)

\* The generated resources of key g among the objects objs, nil for each
\* that is absent.
TriadOf(objs, g) ==
    [kind \in {"Deployment", "Service", "Ingress"} |->
        IF g \in DOMAIN objs[kind] THEN Ptr(objs[kind][g]) ELSE Nil]

\* The store now.
StoreNow == [Ingress |-> ingresses, Service |-> services, Deployment |-> deployments]

\* What one pass without failure makes of the store once the generated
\* resources of the last request are taken out of it, the pass ranging over
\* the environment map from the given offset.
FreshPass(offset) ==
    Reconcile([Ctx(0, offset) EXCEPT
                  !.objs = [kind \in {"Deployment", "Service", "Ingress"} |->
                               Without(StoreNow[kind], ChildKey(last.req))]],
              last.req).c.objs

\* C29: synchronization calls the store for the deployment, then the
\* service, then the child ingress; a call that fails is the last call of
\* the pass and the pass ends with an error; and after every pass that
\* synchronizes without failure, whatever the passes before it left behind,
\* the three generated resources are what a single pass without failure
\* creates.
C29_FailureStopsRetryRepairs ==
    /\ (FinalizedRead /\ StoreFailed) =>
          /\ last.err.class = "error"
          /\ last.ops[Len(last.ops)].res = "fail"
          /\ \A i \in 1..(Len(last.ops) - 1) : last.ops[i].res # "fail"
          /\ TriadInOrder
    /\ SyncPass =>
          /\ TriadInOrder
          /\ TriadPresent(last.req)
          /\ \E offset \in 0..MaxMapOffset :
                TriadOf(StoreNow, ChildKey(last.req))
                    = TriadOf(FreshPass(offset), ChildKey(last.req))

\* A pass failed at the service, after it had created the deployment.
C29_FailedAtService ==
    /\ FinalizedRead
    /\ last.err = Err("service")
    /\ last.ops[Len(last.ops)] = Op("Create", "Service", ChildKey(last.req), "fail")
    /\ \E i \in OpIndexes : last.ops[i] = Op("Create", "Deployment", ChildKey(last.req), "ok")
    /\ ChildKey(last.req) \in DOMAIN deployments
    /\ ChildKey(last.req) \notin DOMAIN services

\* A pass without failure found the deployment there and the service
\* missing: it follows a pass that failed in between.
C29_Witness ==
    /\ SyncPass
    /\ ~StoreFailed
    /\ \E i \in OpIndexes : last.ops[i] = Op("Get", "Deployment", ChildKey(last.req), "ok")
    /\ \E i \in OpIndexes : last.ops[i] = Op("Create", "Service", ChildKey(last.req), "ok")
    /\ \E i \in OpIndexes : last.ops[i] = Op("Create", "Ingress", ChildKey(last.req), "ok")

\* C30: for every source whose namespace holds no "--", a pass over its
\* generated child ingress parses the owner label back to that source: after
\* the read of the child, the pass asks the store for that source and calls
\* the store for no other resource.
C30_OwnerRoundTrip ==
    \A k \in OwnerKeys :
        (GeneratedRead /\ OwnedBy(ReadIng, k)) =>
            /\ Len(last.ops) >= 2
            /\ last.ops[2].verb = "Get"
            /\ \A i \in 2..Len(last.ops) :
                  last.ops[i].kind = "Ingress" /\ last.ops[i].key = k

\* The step changes the status of an ingress that was there, or puts an
\* ingress with a status into the store.
StatusChanged ==
    \E k \in DOMAIN ingresses' :
        IF k \in DOMAIN ingresses THEN ingresses'[k].status # ingresses[k].status
        ELSE ingresses'[k].status # NoStatus

\* C31: a step of the engine that changes the status of any ingress, and a
\* pass that calls the status subresource at all, is a pass over an ingress
\* that is not of the engine's class and carries the managed marker: no pass
\* over a claimed source (attaching the finalizer, synchronizing, pruning
\* for a deletion) and no pass over a foreign ingress writes a status.
C31_StatusOnlyMirrored ==
    [][(last'.ran /\ (StatusChanged \/ ~NoStatusWritten')) => GeneratedRead']_vars

C31_Witness ==
    /\ GeneratedRead
    /\ last.req = ChildKey(Key(StrShop, StrWeb))
    /\ last.ops[Len(last.ops)] = Op("StatusPatch", "Ingress", Key(StrShop, StrWeb), "ok")
    /\ ingresses[Key(StrShop, StrWeb)].status = <<"203.0.113.7">>
    /\ Contains(ingresses[Key(StrShop, StrWeb)].finalizers, FinalizerKey)
    /\ ingresses[Key(StrShop, StrWeb)].deletionTimestamp

\* The labels lb name as owner a source that is in the store and carries the
\* engine's finalizer.
OwnerHeld(lb) ==
    \E k \in DOMAIN ingresses :
        /\ MapGet(lb, OwningLabel) = k.ns \o StrDashDash \o k.name
        /\ Contains(ingresses[k].finalizers, FinalizerKey)

\* C32: as long as nobody but the engine takes its finalizer off, every
\* generated child ingress and deployment in the store, and every generated
\* service (which names its owner in its selector only), is owned by a source
\* that is in the store and carries the engine's finalizer: a source that is
\* gone has left nothing behind, whatever calls the store failed.
C32_NoOrphanedTriad ==
    /\ \A g \in DOMAIN ingresses :
          MapGet(ingresses[g].labels, ManagedLabel) = StrTrue => OwnerHeld(ingresses[g].labels)
    /\ \A g \in DOMAIN deployments : OwnerHeld(deployments[g].labels)
    /\ \A g \in DOMAIN services :
          MapGet(services[g].spec.selector, ManagedLabel) = StrTrue =>
              OwnerHeld(services[g].spec.selector)

C32_Witness ==
    /\ ClaimedRead
    /\ ReadIng.deletionTimestamp
    /\ \A k \in 1..3 : \E i \in OpIndexes :
          last.ops[i] = Op("Delete", Kinds[k], GeneratedKey(last.req), "ok")
    /\ last.ops[Len(last.ops)] = Op("Patch", "Ingress", last.req, "ok")
    /\ last.req \notin DOMAIN ingresses
    /\ TriadAbsent(last.req)

\* The last pass read an ingress that carries the managed marker.
MarkedRead ==
    /\ last.ran
    /\ ~IsNil(last.read)
    /\ MapGet(ReadIng.labels, ManagedLabel) = StrTrue

\* C33: a pass over an ingress that carries the managed marker creates,
\* updates, deletes and patches nothing but a status and never asks the
\* store for a resource named after that ingress, and the store holds no
\* deployment, service or ingress named after a generated ingress (no
\* ia-ia-<name>), also when the class directive or the configured wrapped
\* class is the engine's own class.
C33_OutputNotWrapped ==
    /\ MarkedRead =>
          \A i \in OpIndexes :
              /\ last.ops[i].verb \in {"Get", "StatusPatch"}
              /\ last.ops[i].key # GeneratedKey(last.req)
    /\ \A g \in DOMAIN ingresses :
          MapGet(ingresses[g].labels, ManagedLabel) = StrTrue =>
              /\ GeneratedKey(g) \notin DOMAIN ingresses
              /\ GeneratedKey(g) \notin DOMAIN services
              /\ GeneratedKey(g) \notin DOMAIN deployments

C33_Witness ==
    /\ MarkedRead
    /\ EngineClassRead
    /\ cfg.WrappedIngressClassName = cfg.IngressClassName
    /\ AnnotationKeyIngressClass \notin DOMAIN ReadIng.annotations
    /\ last.req = ChildKey(Key(StrShop, StrWeb))
    /\ last.err = TerminalError("self-owned")
    /\ TriadPresent(Key(StrShop, StrWeb))

\* The ingress read by the last pass is not a valid source: it has neither a
\* default backend nor a rule, or directives that do not parse, or a backend
\* whose service or port the store does not have.
InvalidRead ==
    \/ ReadIng.spec.defaultBackend = Nil /\ ReadIng.spec.rules = <<>>
    \/ Unparsable(ReadIng.annotations)
    \/ IF ReadIng.spec.defaultBackend = Nil /\ ReadIng.spec.rules = <<>> THEN FALSE
       ELSE ~Resolvable(last.req.ns, FirstBackend(ReadIng.spec))

\* C34: a pass, the store failing no call, over a claimed source with the
\* deletion marker that is not a valid source (no backend at all, directives
\* that do not parse, a backend service or port that does not exist) returns
\* no error, leaves none of the three generated resources and leaves the
\* source without the engine's finalizer.
C34_DeletionIgnoresValidity ==
    (ClaimedRead /\ ReadIng.deletionTimestamp /\ InvalidRead /\ ~StoreFailed) =>
        /\ last.err = NoErr
        /\ TriadAbsent(last.req)
        /\ ~Contains(FinalizersNow, FinalizerKey)

\* A Delete of the last pass found its resource gone: another actor deleted
\* it after the Get of the pass had found it.
LostToAnother ==
    \E i \in OpIndexes :
        /\ i > 1
        /\ last.ops[i].verb = "Delete"
        /\ last.ops[i].res = "notfound"
        /\ last.ops[i - 1] = Op("Get", last.ops[i].kind, last.ops[i].key, "ok")

\* C35: a deletion pass that finds a generated resource with its Get and
\* then finds it gone at the Delete, the store failing no call, treats the
\* resource as absent: it returns no error, goes on to look for all three
\* resources, leaves none of them and takes the engine's finalizer off.
C35_LostResourceTolerated ==
    (ClaimedRead /\ ReadIng.deletionTimestamp /\ LostToAnother /\ ~StoreFailed) =>
        /\ last.err = NoErr
        /\ \A k \in 1..3 : \E i \in OpIndexes :
              last.ops[i].verb = "Get" /\ last.ops[i].kind = Kinds[k]
        /\ TriadAbsent(last.req)
        /\ ~Contains(FinalizersNow, FinalizerKey)

\* The backend the last pass selected (the default backend, or the first
\* path of the first rule) carries no service reference.
ServicelessRead ==
    /\ FinalizedRead
    /\ IF ReadIng.spec.defaultBackend # Nil
       THEN Deref(ReadIng.spec.defaultBackend).service = Nil
       ELSE /\ Len(ReadIng.spec.rules) > 0
            /\ ~Pathless(ReadIng.spec.rules[1])
            /\ Deref(ReadIng.spec.rules[1].http).paths[1].backend.service = Nil

\* C36: every pass ends with a result or an error value, never with a
\* panic, and a pass whose selected backend carries no service reference
\* ends with an error.
C36_NoServiceIsAnError ==
    /\ last.ran => last.err.class \in {"nil", "error", "terminal"}
    /\ ServicelessRead => last.err.class \in {"error", "terminal"}

====
